---- MODULE Spec2Model ----
(***************************************************************************)
(* Forage catalog service and bean wizard of Kaoto.                        *)
(*                                                                         *)
(*   ForageCatalogService  packages/ui/src/models/forage-components-       *)
(*                         catalog.ts (the class follows the interfaces)   *)
(*   ForageBeanWizardModal packages/ui/src/components/ForageBeanWizard/    *)
(*                         ForageBeanWizardModal.tsx                       *)
(*                                                                         *)
(* Encodings.                                                              *)
(*   - A string the code takes apart (an artifactId) is a sequence of      *)
(*     lexemes: "-" is the dash, every other lexeme is a dash-free word.   *)
(*     Strings that are only compared are TLA+ strings.                    *)
(*   - A JavaScript value that may be a string, a boolean, a number, null  *)
(*     or undefined is a record [t |-> type, v |-> text], so that true and *)
(*     'true' differ as they do under ===.                                 *)
(*   - null for the catalog is the record NullCatalog.                     *)
(***************************************************************************)
EXTENDS Integers, Sequences, FiniteSets, TLC

VARIABLES
    catalog,        \* ForageCatalogService.catalog
    catalogPath,    \* ForageCatalogService.catalogPath
    calls,          \* the loadCatalog calls: position, argument, response
    lastOp,         \* history: the operation that took the last step
    query,          \* the resolver call made last: [op, arg, store]
    result,         \* what that call returned
    isOpen,             \* wizard: the isOpen prop, owned by CanvasFormHeader
    currentStep,        \* wizard: useState currentStep
    selectedBean,       \* wizard: useState selectedBean
    configuration,      \* wizard: useState configuration
    isSummaryModalOpen, \* wizard: useState isSummaryModalOpen
    camelBeanName,      \* wizard: useState camelBeanName
    camelBeanNameError, \* wizard: useState camelBeanNameError
    onSelectBeanCall    \* history: the onSelectBean call of the last wizard event

storeVars == <<catalog, catalogPath, calls, lastOp>>
queryVars == <<query, result>>
wizardVars == <<isOpen, currentStep, selectedBean, configuration,
                isSummaryModalOpen, camelBeanName, camelBeanNameError,
                onSelectBeanCall>>
vars == <<catalog, catalogPath, calls, lastOp, query, result,
          isOpen, currentStep, selectedBean, configuration,
          isSummaryModalOpen, camelBeanName, camelBeanNameError,
          onSelectBeanCall>>

---------------------------------------------------------------------------
(* JavaScript values *)

JStr(s) == [t |-> "string", v |-> s]
JTrue == [t |-> "boolean", v |-> "true"]
JFalse == [t |-> "boolean", v |-> "false"]
JNull == [t |-> "null", v |-> ""]
JUndefined == [t |-> "undefined", v |-> ""]
\* a number, held as its decimal text
JNum(digits) == [t |-> "number", v |-> digits]

\* !x for a string, boolean, null or undefined value
Falsy(x) ==
    \/ x.t \in {"null", "undefined"}
    \/ x.t = "string" /\ x.v = ""
    \/ x.t = "boolean" /\ x.v = "false"

\* String.prototype.toLowerCase on the texts the catalogs of this model hold
ToLowerCase(s) ==
    CASE s = "MAIN" -> "main"
      [] s = "Main" -> "main"
      [] s = "Spring-Boot" -> "spring-boot"
      [] s = "QUARKUS" -> "quarkus"
      [] s = "Bean-Name" -> "bean-name"
      [] s = "Boolean" -> "boolean"
      [] s = "String" -> "string"
      [] OTHER -> s

\* x?.toLowerCase(): undefined for null and undefined
OptLowerCase(x) ==
    IF x.t \in {"null", "undefined"} THEN JUndefined ELSE JStr(ToLowerCase(x.v))

---------------------------------------------------------------------------
(* Lexeme strings *)

Dash == "-"
CommonSuffix == <<Dash, "common">>

RECURSIVE IndexOfDash(_, _)
\* the least i >= from with s[i] = "-", or 0
IndexOfDash(s, from) ==
    IF from > Len(s) THEN 0
    ELSE IF s[from] = Dash THEN from
    ELSE IndexOfDash(s, from + 1)

RECURSIVE SplitDash(_)
\* s.split('-')
SplitDash(s) ==
    LET i == IndexOfDash(s, 1)
    IN  IF i = 0 THEN <<s>>
        ELSE <<SubSeq(s, 1, i - 1)>> \o SplitDash(SubSeq(s, i + 1, Len(s)))

getBaseArtifactName_wholeId(artifactId) ==
    artifactId

getBaseArtifactName_firstSegment(artifactId) ==
    SplitDash(artifactId)[1]

getBaseArtifactName(artifactId) ==
    LET parts == SplitDash(artifactId)
    IN  IF Len(parts) >= 2 THEN parts[1] \o <<Dash>> \o parts[2] ELSE artifactId

---------------------------------------------------------------------------
(* Catalog documents *)

NullCatalog == [null |-> TRUE]

ConfigurationProperty(name, type, defaultValue) ==
    [name |-> name, type |-> type, defaultValue |-> defaultValue]

Bean(name, components) ==
    [name |-> name, components |-> components]

DependantBean(className, dependsOnFactoryType, dependsOnProperty) ==
    [className |-> className, dependsOnFactoryType |-> dependsOnFactoryType,
     dependsOnProperty |-> dependsOnProperty]

RuntimeComponent(artifactId, runtimeType, factories, dependantBeans) ==
    [artifactId |-> artifactId, groupId |-> "io.kaoto.forage.runtime",
     version |-> "1.1", runtimeType |-> runtimeType,
     factories |-> factories, dependantBeans |-> dependantBeans]

Factory(name, components, beanType, factoryType, runtimeType, runtimes) ==
    [name |-> name, components |-> components, beanType |-> beanType,
     factoryType |-> factoryType, runtimeType |-> runtimeType,
     runtimes |-> runtimes]

Component(artifactId, configurationProperties, beans, factories, dependantBeans) ==
    [artifactId |-> artifactId, groupId |-> "io.kaoto.forage", version |-> "1.0",
     configurationProperties |-> configurationProperties, beans |-> beans,
     factories |-> factories, dependantBeans |-> dependantBeans]

ForageCatalog(components) ==
    [version |-> "1", components |-> components]

\* the sequences of length 0..n over S
RECURSIVE Arrangements(_, _)
Arrangements(S, n) ==
    IF n = 0 THEN {<<>>}
    ELSE LET shorter == Arrangements(S, n - 1)
         IN  shorter \cup
             {Append(a, x) : a \in {b \in shorter : Len(b) = n - 1},
                             x \in S}

Range(s) == {s[i] : i \in DOMAIN s}

Distinct(s) == \A i, j \in DOMAIN s : i # j => s[i] # s[j]

---------------------------------------------------------------------------
(* Catalog Store: loadCatalog, getCatalog, getCatalogPath, clearCatalog *)

MaxCalls == 2
Calls == 1..MaxCalls
Paths == {"/forage-catalog.json", "/other-catalog.json"}

\* what the server may answer: two catalogs, a JSON document without the
\* catalog's "components", and a body that is not JSON
DocA ==
    ForageCatalog(<<Component(<<"forage", Dash, "jdbc", Dash, "postgresql">>,
                              <<>>, <<Bean("postgresql", <<"camel-sql">>)>>,
                              <<>>, <<>>)>>)
DocB ==
    ForageCatalog(<<Component(<<"forage", Dash, "vectordb", Dash, "chroma">>,
                              <<>>, <<Bean("chroma", <<"camel-langchain4j">>)>>,
                              <<>>, <<>>)>>)
DocNoComponents == [version |-> "1"]
NotJson == [syntaxError |-> TRUE]
NoResponse == [none |-> TRUE]

Bodies == {DocA, DocB, DocNoComponents, NotJson}
Responses == {[ok |-> ok, body |-> b] : ok \in BOOLEAN, b \in Bodies}

InFlight(p) == calls[p].pc \in {"fetch", "json"}
Settled(p) == calls[p].pc \in {"resolved", "rejected"}

\* The log statement of loadCatalog reads catalog.version,
\* catalog.components.length and, of every component, beans.length and
\* factories.length: it throws a TypeError on a document that lacks them.
LogSummaryThrows(doc) ==
    \/ "components" \notin DOMAIN doc
    \/ \E i \in DOMAIN doc.components :
           \/ "beans" \notin DOMAIN doc.components[i]
           \/ "factories" \notin DOMAIN doc.components[i]

Settle(p, pc) == [calls EXCEPT ![p].pc = pc]

\* history: a document installed by call p is seen by the calls in flight
Installed(cs, p, doc) ==
    [q \in Calls |->
        IF q # p /\ InFlight(q)
        THEN [cs[q] EXCEPT !.since = @ \cup {doc}]
        ELSE cs[q]]

Op(op, p) ==
    [op |-> op, call |-> p, catalogBefore |-> catalog, pathBefore |-> catalogPath]

\* loadCatalog(path) up to its first await: the fetch is issued
StartLoad(p, path) ==
    /\ calls[p].pc = "idle"
    /\ \A q \in Calls : q < p => calls[q].pc # "idle"
    /\ calls' = [q \in Calls |->
                    IF q = p
                    THEN [calls[p] EXCEPT !.pc = "fetch", !.path = path,
                                          !.startCatalog = catalog,
                                          !.with = {r \in Calls : InFlight(r)}]
                    ELSE IF InFlight(q)
                    THEN [calls[q] EXCEPT !.with = @ \cup {p}]
                    ELSE calls[q]]
    /\ UNCHANGED <<catalog, catalogPath, lastOp>>

\* fetch rejects (network or file error): caught, logged, rethrown
FetchFail(p) ==
    /\ calls[p].pc = "fetch"
    /\ calls' = Settle(p, "rejected")
    /\ lastOp' = Op("rejected", p)
    /\ UNCHANGED <<catalog, catalogPath>>

FetchRespond_installsEarly(p, response) ==
    /\ calls[p].pc = "fetch"
    /\ IF response.ok
       THEN /\ calls' = [calls EXCEPT ![p].pc = "json", ![p].response = response]
            /\ catalog' = response.body
            /\ UNCHANGED <<lastOp, catalogPath>>
       ELSE /\ calls' = [calls EXCEPT ![p].pc = "rejected", ![p].response = response]
            /\ lastOp' = Op("rejected", p)
            /\ UNCHANGED <<catalog, catalogPath>>

\* fetch resolves: a response that is not ok throws, an ok one is parsed
FetchRespond(p, response) ==
    /\ calls[p].pc = "fetch"
    /\ IF response.ok
       THEN /\ calls' = [calls EXCEPT ![p].pc = "json", ![p].response = response]
            /\ UNCHANGED lastOp
       ELSE /\ calls' = [calls EXCEPT ![p].pc = "rejected", ![p].response = response]
            /\ lastOp' = Op("rejected", p)
    /\ UNCHANGED <<catalog, catalogPath>>

JsonSettle_startOrderWins(p) ==
    /\ calls[p].pc = "json"
    /\ LET doc == calls[p].response.body
           stale == \E q \in Calls : q > p /\ calls[q].pc = "resolved"
       IN  IF doc = NotJson
           THEN /\ calls' = Settle(p, "rejected")
                /\ lastOp' = Op("rejected", p)
                /\ UNCHANGED <<catalog, catalogPath>>
           ELSE /\ catalog' = IF stale THEN catalog ELSE doc
                /\ catalogPath' = IF stale THEN catalogPath ELSE calls[p].path
                /\ calls' = Installed(
                      Settle(p, IF LogSummaryThrows(doc) THEN "rejected" ELSE "resolved"),
                      p, doc)
                /\ lastOp' = Op(IF LogSummaryThrows(doc) THEN "rejected" ELSE "resolved", p)

\* response.json() settles; on success the store is assigned, the summary is
\* logged and the document returned
JsonSettle(p) ==
    /\ calls[p].pc = "json"
    /\ LET doc == calls[p].response.body
       IN  IF doc = NotJson
           THEN /\ calls' = Settle(p, "rejected")
                /\ lastOp' = Op("rejected", p)
                /\ UNCHANGED <<catalog, catalogPath>>
           ELSE /\ catalog' = doc
                /\ catalogPath' = calls[p].path
                /\ calls' = Installed(
                      Settle(p, IF LogSummaryThrows(doc) THEN "rejected" ELSE "resolved"),
                      p, doc)
                /\ lastOp' = Op(IF LogSummaryThrows(doc) THEN "rejected" ELSE "resolved", p)

clearCatalog_keepsPath ==
    /\ catalog' = NullCatalog
    /\ lastOp' = Op("clear", 0)
    /\ UNCHANGED <<catalogPath, calls>>

clearCatalog ==
    /\ catalog' = NullCatalog
    /\ catalogPath' = ""
    /\ lastOp' = Op("clear", 0)
    /\ UNCHANGED calls

getCatalog == catalog

getCatalogPath == catalogPath

IdleCall ==
    [pc |-> "idle", path |-> "", response |-> NoResponse,
     startCatalog |-> NullCatalog, since |-> {}, with |-> {}]

NoOp == [op |-> "none", call |-> 0, catalogBefore |-> NullCatalog, pathBefore |-> ""]

StoreInit ==
    /\ catalog = NullCatalog
    /\ catalogPath = ""
    /\ calls = [p \in Calls |-> IdleCall]
    /\ lastOp = NoOp

---------------------------------------------------------------------------
(* Catalog Resolver: the queries of ForageCatalogService over this.catalog *)

\* Array.prototype.find: the first element that satisfies P, or undefined
Find(s, P(_)) ==
    IF \E i \in DOMAIN s : P(s[i])
    THEN s[CHOOSE i \in DOMAIN s : P(s[i]) /\ \A j \in 1..(i - 1) : ~P(s[j])]
    ELSE JUndefined

Some(s, P(_)) == \E i \in DOMAIN s : P(s[i])

Includes(s, x) == \E i \in DOMAIN s : s[i] = x

Map(s, F(_)) == [i \in DOMAIN s |-> F(s[i])]

RECURSIVE Flat(_)
\* Array.prototype.flat: the concatenation of the elements of s
Flat(s) == IF s = <<>> THEN <<>> ELSE Head(s) \o Flat(Tail(s))

FlatMap(s, F(_)) == Flat(Map(s, F))

IsLoaded == catalog # NullCatalog

getComponentByArtifactId(artifactId) ==
    IF ~IsLoaded THEN JUndefined
    ELSE LET Is(component) == component.artifactId = artifactId
         IN  Find(catalog.components, Is)

getAllBeans ==
    IF ~IsLoaded THEN <<>>
    ELSE LET Beans(component) == component.beans
         IN  FlatMap(catalog.components, Beans)

getAllFactories ==
    IF ~IsLoaded THEN <<>>
    ELSE LET Factories(component) == component.factories
         IN  FlatMap(catalog.components, Factories)

getBeanByName_firstOnMiss(name) ==
    LET Named(bean) == bean.name = name
        found == Find(getAllBeans, Named)
    IN  IF found = JUndefined /\ getAllBeans # <<>> THEN getAllBeans[1] ELSE found

getBeanByName(name) ==
    LET Named(bean) == bean.name = name
    IN  Find(getAllBeans, Named)

getFactoryByName(name) ==
    LET Named(factory) == factory.name = name
    IN  Find(getAllFactories, Named)

getBeansByComponent(componentName) ==
    LET Supports(bean) == Includes(bean.components, componentName)
    IN  SelectSeq(getAllBeans, Supports)

getFactoriesByComponent(componentName) ==
    LET Supports(factory) == Includes(factory.components, componentName)
    IN  SelectSeq(getAllFactories, Supports)

\* catalog.components.find((comp) => comp.beans.some((bean) => bean.name === beanName))
ComponentOfBean(cat, beanName) ==
    LET Named(bean) == bean.name = beanName
        Owns(comp) == Some(comp.beans, Named)
    IN  Find(cat.components, Owns)

ComponentWithArtifactId(cat, artifactId) ==
    LET Is(comp) == comp.artifactId = artifactId
    IN  Find(cat.components, Is)

getConfigurationPropertiesForBean_baseFirst(beanName) ==
    IF ~IsLoaded THEN <<>>
    ELSE LET component == ComponentOfBean(catalog, beanName)
         IN  IF component = JUndefined THEN <<>>
             ELSE IF Len(component.configurationProperties) > 0
             THEN component.configurationProperties
             ELSE LET baseArtifactName == getBaseArtifactName(component.artifactId)
                      commonArtifactId == baseArtifactName \o CommonSuffix
                      commonComponent == ComponentWithArtifactId(catalog, commonArtifactId)
                      baseComponent == ComponentWithArtifactId(catalog, baseArtifactName)
                  IN  IF baseComponent # JUndefined
                         /\ Len(baseComponent.configurationProperties) > 0
                      THEN baseComponent.configurationProperties
                      ELSE IF commonComponent # JUndefined
                         /\ Len(commonComponent.configurationProperties) > 0
                      THEN commonComponent.configurationProperties
                      ELSE <<>>

getConfigurationPropertiesForBean_alwaysFallsBack(beanName) ==
    IF ~IsLoaded THEN <<>>
    ELSE LET component == ComponentOfBean(catalog, beanName)
         IN  IF component = JUndefined THEN <<>>
             ELSE LET baseArtifactName == getBaseArtifactName(component.artifactId)
                      commonArtifactId == baseArtifactName \o CommonSuffix
                      commonComponent == ComponentWithArtifactId(catalog, commonArtifactId)
                  IN  IF commonComponent # JUndefined
                         /\ Len(commonComponent.configurationProperties) > 0
                      THEN commonComponent.configurationProperties
                      ELSE component.configurationProperties

getConfigurationPropertiesForBean(beanName) ==
    IF ~IsLoaded THEN <<>>
    ELSE LET component == ComponentOfBean(catalog, beanName)
         IN  IF component = JUndefined THEN <<>>
             ELSE IF Len(component.configurationProperties) > 0
             THEN component.configurationProperties
             ELSE LET baseArtifactName == getBaseArtifactName(component.artifactId)
                      commonArtifactId == baseArtifactName \o CommonSuffix
                      commonComponent == ComponentWithArtifactId(catalog, commonArtifactId)
                      baseComponent == ComponentWithArtifactId(catalog, baseArtifactName)
                  IN  IF commonComponent # JUndefined
                         /\ Len(commonComponent.configurationProperties) > 0
                      THEN commonComponent.configurationProperties
                      ELSE IF baseComponent # JUndefined
                         /\ Len(baseComponent.configurationProperties) > 0
                      THEN baseComponent.configurationProperties
                      ELSE <<>>

\* one entry of the result of getDependantBeansForBean
DependantBeanEntry(depBean, factoryType, coordinates) ==
    [bean |-> depBean, factoryType |-> factoryType,
     artifactId |-> coordinates.artifactId, groupId |-> coordinates.groupId,
     version |-> coordinates.version]

\* component.dependantBeans?.forEach(push)
ComponentLevelEntries(component) ==
    [i \in DOMAIN component.dependantBeans |->
        DependantBeanEntry(component.dependantBeans[i],
                           component.dependantBeans[i].dependsOnFactoryType,
                           component)]

RuntimeEntries_dependsOnFactoryType(factory, runtime) ==
    [i \in DOMAIN runtime.dependantBeans |->
        DependantBeanEntry(runtime.dependantBeans[i],
                           runtime.dependantBeans[i].dependsOnFactoryType, runtime)]

\* runtime.dependantBeans?.forEach(push), for one runtime of one factory
RuntimeEntries(factory, runtime) ==
    [i \in DOMAIN runtime.dependantBeans |->
        DependantBeanEntry(runtime.dependantBeans[i], factory.factoryType, runtime)]

\* component.factories.forEach(factory => factory.runtimes?.forEach(...))
FactoryLevelEntries(component) ==
    Flat([f \in DOMAIN component.factories |->
            Flat([r \in DOMAIN component.factories[f].runtimes |->
                    RuntimeEntries(component.factories[f],
                                   component.factories[f].runtimes[r])])])

EntriesOfComponent_factoryLevelFirst(component) ==
    FactoryLevelEntries(component) \o ComponentLevelEntries(component)

\* the body of componentsToCheck.forEach
EntriesOfComponent(component) ==
    ComponentLevelEntries(component) \o FactoryLevelEntries(component)

IsDefined(x) == x # JUndefined

componentsToCheck_baseBeforeCommon(beanComponent) ==
    LET baseArtifactName == getBaseArtifactName(beanComponent.artifactId)
        commonArtifactId == baseArtifactName \o CommonSuffix
    IN  SelectSeq(<<beanComponent,
                    ComponentWithArtifactId(catalog, baseArtifactName),
                    ComponentWithArtifactId(catalog, commonArtifactId)>>,
                  IsDefined)

\* [beanComponent, the "-common" component, the base component].filter(Boolean)
componentsToCheck(beanComponent) ==
    LET baseArtifactName == getBaseArtifactName(beanComponent.artifactId)
        commonArtifactId == baseArtifactName \o CommonSuffix
    IN  SelectSeq(<<beanComponent,
                    ComponentWithArtifactId(catalog, commonArtifactId),
                    ComponentWithArtifactId(catalog, baseArtifactName)>>,
                  IsDefined)

getDependantBeansForBean(beanName) ==
    IF ~IsLoaded THEN <<>>
    ELSE IF getBeanByName(beanName) = JUndefined THEN <<>>
    ELSE LET beanComponent == ComponentOfBean(catalog, beanName)
         IN  IF beanComponent = JUndefined THEN <<>>
             ELSE LET checked == componentsToCheck(beanComponent)
                  IN  Flat([i \in DOMAIN checked |-> EntriesOfComponent(checked[i])])

---------------------------------------------------------------------------
(* Catalogs of the resolver specifications *)

MaxComponents == 3

PostgresqlId == <<"forage", Dash, "jdbc", Dash, "postgresql">>
CommonId == <<"forage", Dash, "jdbc", Dash, "common">>
BaseId == <<"forage", Dash, "jdbc">>
SingleId == <<"forage">>

PostgresqlBean == Bean("postgresql", <<"camel-sql", "camel-jdbc">>)
BeanNames == {"postgresql", "mysql"}

\* the property list of a component: its default names the component
PropertiesOf(artifactId) ==
    <<ConfigurationProperty("jdbc.url", "String", JStr(artifactId[Len(artifactId)]))>>

\* every component of the family with or without properties and with or
\* without the bean, and a component whose artifactId has one segment
PropPool ==
    {Component(id, IF hasProps THEN PropertiesOf(id) ELSE <<>>,
               IF hasBean THEN <<PostgresqlBean>> ELSE <<>>, <<>>, <<>>) :
        id \in {PostgresqlId, CommonId, BaseId},
        hasProps \in BOOLEAN, hasBean \in BOOLEAN}
    \cup {Component(SingleId, props, <<PostgresqlBean>>, <<>>, <<>>) :
            props \in {<<>>, PropertiesOf(SingleId)}}

PropCatalogs == {ForageCatalog(cs) : cs \in Arrangements(PropPool, MaxComponents)}

NoQuery == [op |-> "none", arg |-> "", store |-> NullCatalog]

SelectBean == "select-bean"
ConfigureProperties == "configure-properties"

\* no onSelectBean call was made
NoCall == [bean |-> JNull, configuration |-> <<>>, called |-> FALSE]

\* the wizard as mounted by CanvasFormHeader: closed, every useState initial
WizardInit ==
    /\ isOpen = FALSE
    /\ currentStep = SelectBean
    /\ selectedBean = JNull
    /\ configuration = <<>>
    /\ isSummaryModalOpen = FALSE
    /\ camelBeanName = <<>>
    /\ camelBeanNameError = ""
    /\ onSelectBeanCall = NoCall

\* a catalog of the given set is loaded, no call is in flight
LoadedInit(catalogs) ==
    /\ catalog \in catalogs
    /\ catalogPath = "/forage-catalog.json"
    /\ calls = [p \in Calls |-> IdleCall]
    /\ lastOp = NoOp
    /\ query = NoQuery
    /\ result = <<>>

CallConfigurationPropertiesForBean(beanName) ==
    /\ query' = [op |-> "getConfigurationPropertiesForBean", arg |-> beanName,
                 store |-> catalog]
    /\ result' = getConfigurationPropertiesForBean(beanName)
    /\ UNCHANGED <<storeVars, wizardVars>>

PropsInit == LoadedInit(PropCatalogs) /\ WizardInit

PropsNext == \E beanName \in BeanNames : CallConfigurationPropertiesForBean(beanName)

SpecProps == PropsInit /\ [][PropsNext]_vars

\* the places of the catalog's components that hold a bean of that name
Owners(beanName) ==
    {i \in DOMAIN catalog.components :
        \E k \in DOMAIN catalog.components[i].beans :
            catalog.components[i].beans[k].name = beanName}

\* the places of the catalog's components with that artifactId
Places(artifactId) ==
    {i \in DOMAIN catalog.components : catalog.components[i].artifactId = artifactId}

Min(S) == CHOOSE i \in S : \A j \in S : i <= j

PropsAt(i) == catalog.components[i].configurationProperties

AskedProperties == query.op = "getConfigurationPropertiesForBean"

\* C1: when the first component that owns the bean has properties of its own,
\* getConfigurationPropertiesForBean returns exactly those, whatever the
\* "-common" and base components hold.
C1_OwnPropertiesWin ==
    (AskedProperties /\ Owners(query.arg) # {}) =>
        LET own == Min(Owners(query.arg))
        IN  PropsAt(own) # <<>> => result = PropsAt(own)

\* C1 happens: the owner has properties, and so have a "-common" and a base
\* component, with other properties
C1_Witness ==
    /\ AskedProperties
    /\ Owners(query.arg) # {}
    /\ LET own == Min(Owners(query.arg))
       IN  /\ PropsAt(own) # <<>>
           /\ catalog.components[own].artifactId = PostgresqlId
           /\ \E c \in Places(CommonId) : PropsAt(c) \notin {<<>>, PropsAt(own)}
           /\ \E b \in Places(BaseId) : PropsAt(b) \notin {<<>>, PropsAt(own)}
           /\ result = PropsAt(own)

\* what the fallback of C2 names, for an owner without properties
FallbackProperties(own) ==
    LET base == getBaseArtifactName(catalog.components[own].artifactId)
        commons == Places(base \o CommonSuffix)
        bases == Places(base)
    IN  IF commons # {} /\ PropsAt(Min(commons)) # <<>> THEN PropsAt(Min(commons))
        ELSE IF bases # {} /\ PropsAt(Min(bases)) # <<>> THEN PropsAt(Min(bases))
        ELSE <<>>

\* C2: when the owner has no properties of its own, the result is the
\* "-common" component's properties if it exists and has some (also when the
\* base has some too), else the base component's if it exists and has some,
\* else empty; with no owner the result is empty.
C2_FallbackOrder ==
    AskedProperties =>
        IF Owners(query.arg) = {} THEN result = <<>>
        ELSE LET own == Min(Owners(query.arg))
             IN  PropsAt(own) = <<>> => result = FallbackProperties(own)

\* C2 happens: owner without properties, "-common" and base both with some,
\* and the result is the "-common" component's
C2_Witness ==
    /\ AskedProperties
    /\ Owners(query.arg) # {}
    /\ LET own == Min(Owners(query.arg))
       IN  /\ PropsAt(own) = <<>>
           /\ \E c \in Places(CommonId), b \in Places(BaseId) :
                 /\ PropsAt(c) # <<>>
                 /\ PropsAt(b) # <<>>
                 /\ PropsAt(b) # PropsAt(c)
                 /\ result = PropsAt(c)

---------------------------------------------------------------------------
(* The Catalog Store under concurrent loads *)

Init == StoreInit /\ query = NoQuery /\ result = <<>> /\ WizardInit

Next ==
    \/ \E p \in Calls, path \in Paths :
          StartLoad(p, path) /\ UNCHANGED <<queryVars, wizardVars>>
    \/ \E p \in Calls : FetchFail(p) /\ UNCHANGED <<queryVars, wizardVars>>
    \/ \E p \in Calls, response \in Responses :
          FetchRespond(p, response) /\ UNCHANGED <<queryVars, wizardVars>>
    \/ \E p \in Calls : JsonSettle(p) /\ UNCHANGED <<queryVars, wizardVars>>
    \/ clearCatalog /\ UNCHANGED <<queryVars, wizardVars>>

Spec == Init /\ [][Next]_vars

\* C6: a loadCatalog call that fails leaves catalog and catalogPath as they
\* were: the previous catalog or null, never the failed document.
C6_FailedLoadLeavesStore ==
    lastOp.op = "rejected" =>
        /\ catalog = lastOp.catalogBefore
        /\ catalogPath = lastOp.pathBefore

\* C7: of two loads in flight together that both succeed, the one that
\* completes last leaves its document and path in the store, whichever was
\* started first.
C7_LastCompletedWins ==
    \A p, q \in Calls :
        (/\ p # q
         /\ q \in calls[p].with
         /\ calls[p].pc = "resolved"
         /\ calls[q].pc = "resolved"
         /\ lastOp.op = "resolved"
         /\ lastOp.call = p) =>
            /\ catalog = calls[p].response.body
            /\ catalogPath = calls[p].path

\* C7 happens: the call started first completes last, over the other's document
C7_Witness ==
    /\ 2 \in calls[1].with
    /\ calls[1].pc = "resolved"
    /\ calls[2].pc = "resolved"
    /\ lastOp.op = "resolved"
    /\ lastOp.call = 1
    /\ lastOp.catalogBefore = calls[2].response.body
    /\ calls[1].response.body # calls[2].response.body
    /\ calls[1].path # calls[2].path
    /\ catalog = calls[1].response.body

ResolversEmpty ==
    /\ getAllBeans = <<>>
    /\ getAllFactories = <<>>
    /\ \A id \in {PostgresqlId, CommonId, BaseId, SingleId} :
          getComponentByArtifactId(id) = JUndefined
    /\ \A name \in BeanNames \cup {"chroma"} :
          /\ getBeanByName(name) = JUndefined
          /\ getFactoryByName(name) = JUndefined
          /\ getConfigurationPropertiesForBean(name) = <<>>
          /\ getDependantBeansForBean(name) = <<>>
    /\ \A name \in {"camel-sql", "camel-langchain4j"} :
          /\ getBeansByComponent(name) = <<>>
          /\ getFactoriesByComponent(name) = <<>>

\* C9: after a successful loadCatalog(path) the store holds the parsed
\* document and path; after clearCatalog() it holds null and '' and every
\* resolver returns empty or undefined.
C9_LoadReplacesClearResets ==
    /\ lastOp.op = "resolved" =>
          /\ getCatalog = calls[lastOp.call].response.body
          /\ getCatalogPath = calls[lastOp.call].path
    /\ lastOp.op = "clear" =>
          /\ getCatalog = NullCatalog
          /\ getCatalogPath = ""
          /\ ResolversEmpty

\* C9 happens: a catalog is loaded, another replaces it, and that one is cleared
C9_Witness ==
    /\ calls[1].pc = "resolved"
    /\ calls[2].pc = "resolved"
    /\ 1 \notin calls[2].with
    /\ calls[1].response.body = DocA
    /\ calls[2].response.body = DocB
    /\ calls[2].startCatalog = DocA
    /\ lastOp.op = "clear"
    /\ lastOp.catalogBefore = DocB
    /\ getCatalog = NullCatalog

---------------------------------------------------------------------------
(* getDependantBeansForBean over catalogs with dependant beans at both levels *)

\* a dependant bean whose className names the component and the place it is
\* declared at
Dep(artifactId, place) ==
    DependantBean(<<artifactId[Len(artifactId)], place>>, "Connection", "")

RuntimeOf(artifactId, suffix, runtimeType, places) ==
    RuntimeComponent(artifactId \o <<Dash, suffix>>, JStr(runtimeType), <<>>,
                     [i \in DOMAIN places |-> Dep(artifactId, places[i])])

\* two factories, the first with two runtimes, each runtime with dependant beans
FactoriesWithDependantBeans(artifactId) ==
    <<Factory("dataSourceFactory", <<"camel-sql">>, "javax.sql.DataSource",
              "DataSource", JStr("main"),
              <<RuntimeOf(artifactId, "starter", "spring-boot", <<"f1.r1.d1", "f1.r1.d2">>),
                RuntimeOf(artifactId, "quarkus", "quarkus", <<"f1.r2.d1">>)>>),
      Factory("repositoryFactory", <<"camel-jdbc">>, "IdempotentRepository",
              "Repository", JStr("main"),
              <<RuntimeOf(artifactId, "starter", "spring-boot", <<"f2.r1.d1">>)>>)>>

DepPool ==
    {Component(id, <<>>, IF hasBean THEN <<PostgresqlBean>> ELSE <<>>,
               IF hasDeps THEN FactoriesWithDependantBeans(id) ELSE <<>>,
               IF hasDeps THEN <<Dep(id, "c1"), Dep(id, "c2")>> ELSE <<>>) :
        id \in {PostgresqlId, CommonId, BaseId},
        hasBean \in BOOLEAN, hasDeps \in BOOLEAN}

DepCatalogs == {ForageCatalog(cs) : cs \in Arrangements(DepPool, MaxComponents)}

CallDependantBeansForBean(beanName) ==
    /\ query' = [op |-> "getDependantBeansForBean", arg |-> beanName,
                 store |-> catalog]
    /\ result' = getDependantBeansForBean(beanName)
    /\ UNCHANGED <<storeVars, wizardVars>>

DepsInit == LoadedInit(DepCatalogs) /\ WizardInit

DepsNext == \E beanName \in BeanNames : CallDependantBeansForBean(beanName)

SpecDeps == DepsInit /\ [][DepsNext]_vars

AskedDependantBeans == query.op = "getDependantBeansForBean"

\* the candidates of the bean's owner, by rank: 1 the owner, 2 the "-common"
\* component, 3 the base component; 0 stands for a candidate that is absent
CandidatePlaces(own) ==
    LET base == getBaseArtifactName(catalog.components[own].artifactId)
        commons == Places(base \o CommonSuffix)
        bases == Places(base)
    IN  <<own,
          IF commons = {} THEN 0 ELSE Min(commons),
          IF bases = {} THEN 0 ELSE Min(bases)>>

\* where a dependant bean is declared: <<candidate rank, level, factory,
\* runtime, index>>, level 0 for the component's own list (factory and
\* runtime 0) and 1 for a list under factories[].runtimes[]
Declarations(own) ==
    LET at == CandidatePlaces(own)
        comp(k) == catalog.components[at[k]]
    IN  {d \in (1..3) \X {0} \X {0} \X {0} \X (1..2) :
            /\ at[d[1]] # 0
            /\ d[5] \in DOMAIN comp(d[1]).dependantBeans}
        \cup
        {d \in (1..3) \X {1} \X (1..2) \X (1..2) \X (1..2) :
            /\ at[d[1]] # 0
            /\ d[3] \in DOMAIN comp(d[1]).factories
            /\ d[4] \in DOMAIN comp(d[1]).factories[d[3]].runtimes
            /\ d[5] \in DOMAIN comp(d[1]).factories[d[3]].runtimes[d[4]].dependantBeans}

DeclaredAt(own, d) ==
    LET c == catalog.components[CandidatePlaces(own)[d[1]]]
    IN  IF d[2] = 0 THEN c.dependantBeans[d[5]]
        ELSE c.factories[d[3]].runtimes[d[4]].dependantBeans[d[5]]

Before(a, b) ==
    \E j \in 1..5 : a[j] < b[j] /\ \A m \in 1..(j - 1) : a[m] = b[m]

\* C10: the result lists the dependant beans by candidate (owner, "-common",
\* base), within a candidate the component's own before those under
\* factories[].runtimes[], and inside each list in catalog array order.
C10_DependantBeanOrder ==
    (AskedDependantBeans /\ Owners(query.arg) # {}) =>
        LET own == Min(Owners(query.arg))
            ds == Declarations(own)
        IN  /\ Len(result) = Cardinality(ds)
            /\ \A d \in ds :
                  result[Cardinality({e \in ds : Before(e, d)}) + 1].bean
                      = DeclaredAt(own, d)

\* C10 happens: owner, "-common" and base are three components, each with
\* dependant beans at both levels
C10_Witness ==
    /\ AskedDependantBeans
    /\ Owners(query.arg) # {}
    /\ catalog.components[Min(Owners(query.arg))].artifactId = PostgresqlId
    /\ Len(result) = 18
    /\ result[1].bean = Dep(PostgresqlId, "c1")
    /\ result[3].bean = Dep(PostgresqlId, "f1.r1.d1")
    /\ result[7].bean = Dep(CommonId, "c1")
    /\ result[12].bean = Dep(CommonId, "f2.r1.d1")
    /\ result[13].bean = Dep(BaseId, "c1")

\* the coordinates of a component or of a runtime component
Coordinates(c) == <<c.artifactId, c.groupId, c.version>>

\* C11: a component-level entry carries the dependant bean's own
\* dependsOnFactoryType and the candidate component's coordinates; a
\* runtime-level entry carries the outer factory's factoryType and the
\* coordinates of the runtime component, never the outer component's.
C11_EntryTags ==
    (AskedDependantBeans /\ Owners(query.arg) # {}) =>
        LET own == Min(Owners(query.arg))
            ds == Declarations(own)
            at == CandidatePlaces(own)
        IN  \A d \in ds :
                LET entry == result[Cardinality({e \in ds : Before(e, d)}) + 1]
                    component == catalog.components[at[d[1]]]
                IN  IF d[2] = 0
                    THEN /\ entry.factoryType = DeclaredAt(own, d).dependsOnFactoryType
                         /\ Coordinates(entry) = Coordinates(component)
                    ELSE LET factory == component.factories[d[3]]
                             runtime == factory.runtimes[d[4]]
                         IN  /\ entry.factoryType = factory.factoryType
                             /\ Coordinates(entry) = Coordinates(runtime)
                             /\ Coordinates(entry) # Coordinates(component)

\* C11 happens: the owner has dependant beans of its own and under the
\* runtimes of a factory whose factoryType is not theirs
C11_Witness ==
    /\ AskedDependantBeans
    /\ Owners(query.arg) # {}
    /\ Len(result) >= 6
    /\ result[1].bean = Dep(PostgresqlId, "c1")
    /\ result[1].factoryType = "Connection"
    /\ result[1].artifactId = PostgresqlId
    /\ result[6].bean = Dep(PostgresqlId, "f2.r1.d1")
    /\ result[6].factoryType = "Repository"
    /\ result[6].artifactId = PostgresqlId \o <<Dash, "starter">>
    /\ result[6].groupId = "io.kaoto.forage.runtime"

RECURSIVE DeclaredIn(_)
\* how many dependant beans the components at these places declare, at both
\* levels
DeclaredIn(places) ==
    IF places = {} THEN 0
    ELSE LET place == Min(places)
         IN  Len(EntriesOfComponent(catalog.components[place]))
                 + DeclaredIn(places \ {place})

\* C12: each distinct component among the owner, its "-common" sibling and
\* its base contributes its dependant beans exactly once, also when the owner
\* is itself the "-common" or the base component: the result has as many
\* entries as those components declare.
C12_EachCandidateOnce ==
    (AskedDependantBeans /\ Owners(query.arg) # {}) =>
        LET candidates == Range(CandidatePlaces(Min(Owners(query.arg)))) \ {0}
        IN  Len(result) = DeclaredIn(candidates)

---------------------------------------------------------------------------
(* Wizard Flow: the handlers of ForageBeanWizardModal *)

\* the componentName prop: the Camel component of the node being edited
componentName == "camel-sql"

availableBeans == getBeansByComponent(componentName)

\* useMemo over selectedBean
configurationProperties ==
    IF selectedBean = JNull THEN <<>>
    ELSE getConfigurationPropertiesForBean(selectedBean.name)

\* configuration[name]
ConfigurationValue(name) ==
    IF name \in DOMAIN configuration THEN configuration[name] ELSE JUndefined

\* what the input rendered for a property hands to handlePropertyChange: a
\* checkbox its checked state, a text input its text, a bean-name field
\* (read-only) nothing
InputValues(prop) ==
    LET normalizedType == ToLowerCase(prop.type)
    IN  IF normalizedType = "bean-name" THEN {}
        ELSE IF normalizedType = "boolean" THEN {JTrue, JFalse}
        ELSE IF normalizedType \in {"integer", "int", "number"}
             THEN {JNum("0"), JNum("5")}
        ELSE {JStr(""), JStr("true"), JStr("false"), JStr("jdbc:postgresql://db")}

\* the texts typed into the Camel Bean Name input, as lexemes
BeanNameTexts == {<<>>, <<"myBean">>, <<"my", " ", "bean">>}

\* the reset effect without setCamelBeanName('') and setCamelBeanNameError('')
OpenWizard_keepsBeanName ==
    /\ ~isOpen
    /\ isOpen' = TRUE
    /\ currentStep' = SelectBean
    /\ selectedBean' = JNull
    /\ configuration' = <<>>
    /\ UNCHANGED <<isSummaryModalOpen, camelBeanName, camelBeanNameError>>
    /\ onSelectBeanCall' = NoCall

\* useEffect on isOpen, run when CanvasFormHeader sets isOpen
OpenWizard ==
    /\ ~isOpen
    /\ isOpen' = TRUE
    /\ currentStep' = SelectBean
    /\ selectedBean' = JNull
    /\ configuration' = <<>>
    /\ camelBeanName' = <<>>
    /\ camelBeanNameError' = ""
    /\ UNCHANGED isSummaryModalOpen
    /\ onSelectBeanCall' = NoCall

\* onClose: Cancel, or the modal's close button
onClose ==
    /\ isOpen
    /\ isOpen' = FALSE
    /\ UNCHANGED <<currentStep, selectedBean, configuration, isSummaryModalOpen,
                   camelBeanName, camelBeanNameError>>
    /\ onSelectBeanCall' = NoCall

handleSelectBean(bean) ==
    /\ isOpen
    /\ currentStep = SelectBean
    /\ Includes(availableBeans, bean)
    /\ selectedBean' = bean
    /\ currentStep' = ConfigureProperties
    /\ UNCHANGED <<isOpen, configuration, isSummaryModalOpen,
                   camelBeanName, camelBeanNameError>>
    /\ onSelectBeanCall' = NoCall

\* handleBack without setConfiguration({})
handleBack_keepsConfiguration ==
    /\ isOpen
    /\ currentStep = ConfigureProperties
    /\ currentStep' = SelectBean
    /\ selectedBean' = JNull
    /\ UNCHANGED <<isOpen, configuration, isSummaryModalOpen,
                   camelBeanName, camelBeanNameError>>
    /\ onSelectBeanCall' = NoCall

\* handleBack without setSelectedBean(null)
handleBack_keepsBean ==
    /\ isOpen
    /\ currentStep = ConfigureProperties
    /\ currentStep' = SelectBean
    /\ configuration' = <<>>
    /\ UNCHANGED <<isOpen, selectedBean, isSummaryModalOpen,
                   camelBeanName, camelBeanNameError>>
    /\ onSelectBeanCall' = NoCall

\* handleBack that also clears the bean name and its message
handleBack_clearsBeanName ==
    /\ isOpen
    /\ currentStep = ConfigureProperties
    /\ currentStep' = SelectBean
    /\ selectedBean' = JNull
    /\ configuration' = <<>>
    /\ camelBeanName' = <<>>
    /\ camelBeanNameError' = ""
    /\ UNCHANGED <<isOpen, isSummaryModalOpen>>
    /\ onSelectBeanCall' = NoCall

handleBack ==
    /\ isOpen
    /\ currentStep = ConfigureProperties
    /\ currentStep' = SelectBean
    /\ selectedBean' = JNull
    /\ configuration' = <<>>
    /\ UNCHANGED <<isOpen, isSummaryModalOpen, camelBeanName, camelBeanNameError>>
    /\ onSelectBeanCall' = NoCall

handlePropertyChange(propertyName, value) ==
    /\ isOpen
    /\ currentStep = ConfigureProperties
    /\ \E i \in DOMAIN configurationProperties :
          /\ configurationProperties[i].name = propertyName
          /\ value \in InputValues(configurationProperties[i])
    /\ configuration' =
          [n \in DOMAIN configuration \cup {propertyName} |->
              IF n = propertyName THEN value ELSE configuration[n]]
    /\ UNCHANGED <<isOpen, currentStep, selectedBean, isSummaryModalOpen,
                   camelBeanName, camelBeanNameError>>
    /\ onSelectBeanCall' = NoCall

handleCamelBeanNameChange(value) ==
    /\ isOpen
    /\ currentStep = ConfigureProperties
    /\ Len(configurationProperties) > 0
    /\ camelBeanName' = value
    /\ camelBeanNameError' =
          IF Includes(value, " ") THEN "Camel Bean Name cannot contain spaces" ELSE ""
    /\ UNCHANGED <<isOpen, currentStep, selectedBean, configuration,
                   isSummaryModalOpen>>
    /\ onSelectBeanCall' = NoCall

\* handleFinish that returns early while a validation message is shown
handleFinish_blockedByError ==
    /\ isOpen
    /\ currentStep = ConfigureProperties
    /\ camelBeanNameError = ""
    /\ onSelectBeanCall' =
          IF selectedBean # JNull
          THEN [bean |-> selectedBean, configuration |-> configuration,
                called |-> TRUE]
          ELSE NoCall
    /\ isOpen' = FALSE
    /\ isSummaryModalOpen' = TRUE
    /\ UNCHANGED <<currentStep, selectedBean, configuration,
                   camelBeanName, camelBeanNameError>>

\* onSelectBean of CanvasFormHeader only logs its arguments; selectedBean is
\* set in every state that shows the Finish button
handleFinish ==
    /\ isOpen
    /\ currentStep = ConfigureProperties
    /\ onSelectBeanCall' =
          IF selectedBean # JNull
          THEN [bean |-> selectedBean, configuration |-> configuration,
                called |-> TRUE]
          ELSE NoCall
    /\ isOpen' = FALSE
    /\ isSummaryModalOpen' = TRUE
    /\ UNCHANGED <<currentStep, selectedBean, configuration,
                   camelBeanName, camelBeanNameError>>

handleCloseSummaryModal ==
    /\ isSummaryModalOpen
    /\ isSummaryModalOpen' = FALSE
    /\ UNCHANGED <<isOpen, currentStep, selectedBean, configuration,
                   camelBeanName, camelBeanNameError>>
    /\ onSelectBeanCall' = NoCall

PropertyNames == {"ssl.enabled", "jdbc.url"}
PropertyValues == {JTrue, JFalse, JStr(""), JStr("true"), JStr("false"),
                   JStr("jdbc:postgresql://db")}

---------------------------------------------------------------------------
(* Selection Aggregator: getCatalogInfo and the summary derived from it *)

\* s.replace(/-word$/, '')
StripSuffix(s, word) ==
    IF Len(s) >= 2 /\ s[Len(s) - 1] = Dash /\ s[Len(s)] = word
    THEN SubSeq(s, 1, Len(s) - 2)
    ELSE s

RECURSIVE JoinDash(_)
\* parts.join('-')
JoinDash(parts) ==
    IF parts = <<>> THEN <<>>
    ELSE IF Len(parts) = 1 THEN parts[1]
    ELSE parts[1] \o <<Dash>> \o JoinDash(Tail(parts))

\* parts.slice(0, 2)
FirstTwo(parts) == SubSeq(parts, 1, IF Len(parts) < 2 THEN Len(parts) ELSE 2)

\* the component getCatalogInfo finds for the selected bean, or undefined
\* when getCatalogInfo returns null
catalogInfoComponent ==
    IF selectedBean = JNull THEN JUndefined
    ELSE IF ~IsLoaded THEN JUndefined
    ELSE ComponentOfBean(catalog, selectedBean.name)

hasCatalogInfo == catalogInfoComponent # JUndefined

baseArtifactId ==
    StripSuffix(StripSuffix(catalogInfoComponent.artifactId, "starter"), "quarkus")

\* artifactId.includes(word), for a dash-free word: some lexeme contains it
IncludesWord(artifactId, word) ==
    \E i \in DOMAIN artifactId :
        \/ artifactId[i] = word
        \/ word = "quarkus" /\ artifactId[i] = "quarkusjdbc"

springBootComponent ==
    ComponentWithArtifactId(catalog, baseArtifactId \o <<Dash, "starter">>)

\* the lookup without the base id accepted for an owner that is itself Quarkus
quarkusComponent_suffixOnly ==
    ComponentWithArtifactId(catalog, baseArtifactId \o <<Dash, "quarkus">>)

quarkusComponent ==
    LET IsVariant(comp) ==
            \/ comp.artifactId = baseArtifactId \o <<Dash, "quarkus">>
            \/ /\ IncludesWord(catalogInfoComponent.artifactId, "quarkus")
               /\ comp.artifactId = baseArtifactId
    IN  Find(catalog.components, IsVariant)

dependantBeansData == getDependantBeansForBean(selectedBean.name)

allRelatedProperties ==
    LET commonArtifactId == JoinDash(FirstTwo(SplitDash(baseArtifactId))) \o CommonSuffix
        commonComponent == ComponentWithArtifactId(catalog, commonArtifactId)
    IN  IF commonComponent # JUndefined
        THEN configurationProperties \o commonComponent.configurationProperties
        ELSE configurationProperties

\* allRelatedProperties.find((p) => p.name === name)?.defaultValue
RelatedDefaultValue(name) ==
    LET props == allRelatedProperties
        named == {i \in DOMAIN props : props[i].name = name}
    IN  IF named # {}
        THEN props[CHOOSE i \in named : \A j \in named : i <= j].defaultValue
        ELSE JUndefined

isActiveDependantBean_defaultIgnored(depBeanData) ==
    LET depBean == depBeanData.bean
        propertyValue == ConfigurationValue(depBean.dependsOnProperty)
    IN  IF depBean.dependsOnProperty = "" THEN TRUE
        ELSE IF propertyValue = JTrue \/ propertyValue = JStr("true") THEN TRUE
        ELSE /\ propertyValue # JUndefined
             /\ propertyValue # JStr("")
             /\ propertyValue # JNull
             /\ propertyValue # JFalse
             /\ propertyValue # JStr("false")

\* the predicate of dependantBeansData.filter
isActiveDependantBean(depBeanData) ==
    LET depBean == depBeanData.bean
        propertyValue == ConfigurationValue(depBean.dependsOnProperty)
    IN  IF depBean.dependsOnProperty = "" THEN TRUE
        ELSE IF propertyValue = JTrue \/ propertyValue = JStr("true") THEN TRUE
        ELSE LET hasConfiguredValue ==
                     /\ propertyValue # JUndefined
                     /\ propertyValue # JStr("")
                     /\ propertyValue # JNull
                     /\ propertyValue # JFalse
                     /\ propertyValue # JStr("false")
                 hasDefaultValue ==
                     RelatedDefaultValue(depBean.dependsOnProperty) = JStr("true")
             IN  hasConfiguredValue \/ hasDefaultValue

activeDependantBeans == SelectSeq(dependantBeansData, isActiveDependantBean)

\* factory.components.some((c) => selectedBean.components.includes(c))
SharesComponent(factory) ==
    \E i \in DOMAIN factory.components :
        Includes(selectedBean.components, factory.components[i])

FactoryEntry_ownRuntimeType(factory, coordinates, runtimeType) ==
    [name |-> factory.name, components |-> factory.components,
     beanType |-> factory.beanType, factoryType |-> factory.factoryType,
     runtimeType |-> factory.runtimeType, runtimes |-> factory.runtimes,
     artifactId |-> coordinates.artifactId, groupId |-> coordinates.groupId,
     version |-> coordinates.version]

\* {...factory, artifactId, groupId, version} and, for a nested factory, runtimeType
FactoryEntry(factory, coordinates, runtimeType) ==
    [name |-> factory.name, components |-> factory.components,
     beanType |-> factory.beanType, factoryType |-> factory.factoryType,
     runtimeType |-> runtimeType, runtimes |-> factory.runtimes,
     artifactId |-> coordinates.artifactId, groupId |-> coordinates.groupId,
     version |-> coordinates.version]

RECURSIVE PushTopLevel(_, _, _)
\* comp.factories.forEach, first loop, from factory i on
PushTopLevel(acc, comp, i) ==
    IF i > Len(comp.factories) THEN acc
    ELSE LET factory == comp.factories[i]
             known == \E k \in DOMAIN acc : acc[k].name = factory.name
         IN  PushTopLevel(
                 IF SharesComponent(factory) /\ ~known
                 THEN Append(acc, FactoryEntry(factory, comp, factory.runtimeType))
                 ELSE acc,
                 comp, i + 1)

\* the nested factories of a component in the order the second loop visits
\* them, each with its parent factory and its runtime
NestedFactories(comp) ==
    Flat([f \in DOMAIN comp.factories |->
            Flat([r \in DOMAIN comp.factories[f].runtimes |->
                    [k \in DOMAIN comp.factories[f].runtimes[r].factories |->
                        [parent |-> comp.factories[f],
                         runtime |-> comp.factories[f].runtimes[r],
                         runtimeFactory |-> comp.factories[f].runtimes[r].factories[k]]]])])

RECURSIVE PushNested_ownComponentsOnly(_, _, _)
PushNested_ownComponentsOnly(acc, nested, i) ==
    IF i > Len(nested) THEN acc
    ELSE LET runtime == nested[i].runtime
             runtimeFactory == nested[i].runtimeFactory
             known == \E k \in DOMAIN acc :
                         /\ acc[k].name = runtimeFactory.name
                         /\ acc[k].artifactId = runtime.artifactId
         IN  PushNested_ownComponentsOnly(
                 IF SharesComponent(runtimeFactory) /\ ~known
                 THEN Append(acc, FactoryEntry(runtimeFactory, runtime, runtime.runtimeType))
                 ELSE acc,
                 nested, i + 1)

RECURSIVE PushNested_everyMatch(_, _, _)
\* the second loop without the find on name and artifactId
PushNested_everyMatch(acc, nested, i) ==
    IF i > Len(nested) THEN acc
    ELSE LET runtime == nested[i].runtime
             runtimeFactory == nested[i].runtimeFactory
             parentMatches == SharesComponent(nested[i].parent)
             runtimeMatches ==
                 Len(runtimeFactory.components) > 0 /\ SharesComponent(runtimeFactory)
         IN  PushNested_everyMatch(
                 IF parentMatches \/ runtimeMatches
                 THEN Append(acc, FactoryEntry(runtimeFactory, runtime, runtime.runtimeType))
                 ELSE acc,
                 nested, i + 1)

RECURSIVE PushNested(_, _, _)
\* comp.factories.forEach, second loop, from the i-th nested factory on
PushNested(acc, nested, i) ==
    IF i > Len(nested) THEN acc
    ELSE LET runtime == nested[i].runtime
             runtimeFactory == nested[i].runtimeFactory
             parentMatches == SharesComponent(nested[i].parent)
             runtimeMatches ==
                 Len(runtimeFactory.components) > 0 /\ SharesComponent(runtimeFactory)
             known == \E k \in DOMAIN acc :
                         /\ acc[k].name = runtimeFactory.name
                         /\ acc[k].artifactId = runtime.artifactId
         IN  PushNested(
                 IF (parentMatches \/ runtimeMatches) /\ ~known
                 THEN Append(acc, FactoryEntry(runtimeFactory, runtime, runtime.runtimeType))
                 ELSE acc,
                 nested, i + 1)

RECURSIVE PushComponents(_, _)
\* catalog.components.forEach, from component i on
PushComponents(acc, i) ==
    IF i > Len(catalog.components) THEN acc
    ELSE LET comp == catalog.components[i]
         IN  PushComponents(
                 PushNested(PushTopLevel(acc, comp, 1), NestedFactories(comp), 1),
                 i + 1)

\* getCatalogInfo().factories
factories == PushComponents(<<>>, 1)

\* !x for the runtimeType?.toLowerCase() of a factory
NoRuntime(runtime) == runtime = JUndefined \/ runtime = JStr("")

RECURSIVE IndexOfKey(_, _, _)
\* the place of the key in the Map's entries, or 0
IndexOfKey(entries, key, i) ==
    IF i > Len(entries) THEN 0
    ELSE IF entries[i].key = key THEN i
    ELSE IndexOfKey(entries, key, i + 1)

\* Map.prototype.set: a new key is appended, a known key keeps its place
MapSet(entries, key, value) ==
    LET i == IndexOfKey(entries, key, 1)
    IN  IF i = 0 THEN Append(entries, [key |-> key, value |-> value])
        ELSE [entries EXCEPT ![i].value = value]

RECURSIVE DeduplicateByBeanType(_, _, _)
\* catalogInfo.factories.forEach over uniqueBeanTypes, from factory i on
DeduplicateByBeanType(entries, list, i) ==
    IF i > Len(list) THEN entries
    ELSE LET factory == list[i]
             at == IndexOfKey(entries, factory.beanType, 1)
         IN  IF at = 0
             THEN DeduplicateByBeanType(MapSet(entries, factory.beanType, factory),
                                        list, i + 1)
             ELSE LET existingRuntime == OptLowerCase(entries[at].value.runtimeType)
                      currentRuntime == OptLowerCase(factory.runtimeType)
                  IN  IF \/ currentRuntime = JStr("main")
                         \/ NoRuntime(currentRuntime) /\ ~NoRuntime(existingRuntime)
                      THEN DeduplicateByBeanType(
                               MapSet(entries, factory.beanType, factory), list, i + 1)
                      ELSE DeduplicateByBeanType(entries, list, i + 1)

\* Array.from(uniqueBeanTypes.values())
uniqueBeanTypes ==
    LET entries == DeduplicateByBeanType(<<>>, factories, 1)
    IN  [i \in DOMAIN entries |-> entries[i].value]

\* String(value) of a configured or default value
StringOf(value) ==
    CASE value.t = "null" -> "null"
      [] value.t = "undefined" -> "undefined"
      [] OTHER -> value.v

\* value !== undefined && value !== '' && value !== null
IsNonEmpty(value) == value # JUndefined /\ value # JStr("") /\ value # JNull

isNonEmptyProperty_defaultIgnored(prop) ==
    IF ToLowerCase(prop.type) = "bean-name" THEN TRUE
    ELSE IsNonEmpty(ConfigurationValue(prop.name))

\* the predicate of configurationProperties.filter
isNonEmptyProperty(prop) ==
    LET normalizedType == ToLowerCase(prop.type)
    IN  IF normalizedType = "bean-name" THEN TRUE
        ELSE LET value == ConfigurationValue(prop.name)
                 hasConfiguredValue == IsNonEmpty(value)
                 hasDefaultValue == IsNonEmpty(prop.defaultValue)
             IN  hasConfiguredValue \/ hasDefaultValue

nonEmptyProperties == SelectSeq(configurationProperties, isNonEmptyProperty)

displayValue_defaultFirst(prop) ==
    LET normalizedType == ToLowerCase(prop.type)
    IN  IF normalizedType = "bean-name"
        THEN IF selectedBean = JNull THEN "" ELSE selectedBean.name
        ELSE IF ~Falsy(prop.defaultValue) THEN StringOf(prop.defaultValue)
        ELSE IF IsNonEmpty(ConfigurationValue(prop.name))
        THEN StringOf(ConfigurationValue(prop.name))
        ELSE ""

\* the text shown for a property in the summary's Configured Properties
displayValue(prop) ==
    LET normalizedType == ToLowerCase(prop.type)
    IN  IF normalizedType = "bean-name"
        THEN IF selectedBean = JNull THEN "" ELSE selectedBean.name
        ELSE LET configuredValue == ConfigurationValue(prop.name)
             IN  IF IsNonEmpty(configuredValue)
                 THEN StringOf(configuredValue)
                 ELSE IF Falsy(prop.defaultValue) THEN ""
                      ELSE StringOf(prop.defaultValue)

DepsOfRuntime_caseSensitive(runtime) ==
    LET Is(factory) == factory.runtimeType = JStr(runtime)
    IN  SelectSeq(factories, Is)

\* the factories whose runtimeType?.toLowerCase() is that runtime
DepsOfRuntime(runtime) ==
    LET Is(factory) == OptLowerCase(factory.runtimeType) = JStr(runtime)
    IN  SelectSeq(factories, Is)

mainDeps == DepsOfRuntime("main")
springBootDeps == DepsOfRuntime("spring-boot")
quarkusDeps == DepsOfRuntime("quarkus")

\* `${groupId}:${artifactId}:${version}`, as lexemes
formatGAV(c) == <<c.groupId, ":">> \o c.artifactId \o <<":", c.version>>

genericDeps ==
    IF selectedBean # JNull THEN <<formatGAV(catalogInfoComponent)>> ELSE <<>>

\* the summary modal shows the Main Bean list
mainBeanShown ==
    /\ isSummaryModalOpen
    /\ hasCatalogInfo
    /\ camelBeanName # <<>>
    /\ Len(factories) > 0

---------------------------------------------------------------------------
(* The wizard over catalogs whose dependant beans depend on a property *)

SslProperty(type, defaultValue) ==
    ConfigurationProperty("ssl.enabled", type, defaultValue)

UrlProperty ==
    ConfigurationProperty("jdbc.url", "String", JStr("jdbc:postgresql://localhost"))

SslProperties ==
    {SslProperty(type, defaultValue) :
        type \in {"Boolean", "String"},
        defaultValue \in {JStr("true"), JStr("false"), JNull}}

PropertyLists ==
    {<<>>, <<UrlProperty>>, <<UrlProperty, SslProperty("Boolean", JStr("true"))>>}
    \cup {<<ssl>> : ssl \in SslProperties}

DepAlways == DependantBean(<<"always">>, "DataSource", "")
DepSsl == DependantBean(<<"ssl">>, "DataSource", "ssl.enabled")
DepCommonSsl == DependantBean(<<"common", "ssl">>, "DataSource", "ssl.enabled")

AggOwner(props) ==
    Component(PostgresqlId, props, <<PostgresqlBean>>, <<>>, <<DepAlways, DepSsl>>)

AggCommon(props) ==
    Component(CommonId, props, <<>>, <<>>, <<DepCommonSsl>>)

AggCatalogs ==
    {ForageCatalog(<<AggOwner(own)>>) : own \in PropertyLists}
    \cup {ForageCatalog(<<AggOwner(own), AggCommon(common)>>) :
            own \in PropertyLists, common \in PropertyLists}

AggInit == LoadedInit(AggCatalogs) /\ WizardInit

AggNext ==
    \/ OpenWizard /\ UNCHANGED <<storeVars, queryVars>>
    \/ onClose /\ UNCHANGED <<storeVars, queryVars>>
    \/ \E i \in DOMAIN availableBeans :
          handleSelectBean(availableBeans[i]) /\ UNCHANGED <<storeVars, queryVars>>
    \/ handleBack /\ UNCHANGED <<storeVars, queryVars>>
    \/ \E name \in PropertyNames, value \in PropertyValues :
          handlePropertyChange(name, value) /\ UNCHANGED <<storeVars, queryVars>>
    \/ \E value \in BeanNameTexts :
          handleCamelBeanNameChange(value) /\ UNCHANGED <<storeVars, queryVars>>
    \/ handleFinish /\ UNCHANGED <<storeVars, queryVars>>
    \/ handleCloseSummaryModal /\ UNCHANGED <<storeVars, queryVars>>

SpecAgg == AggInit /\ [][AggNext]_vars

\* the default the claims speak of: that of the first property of that name
\* among the bean's resolved properties, followed by those of the "-common"
\* component of the bean's owner
DefaultOfProperty(name) ==
    LET resolved == getConfigurationPropertiesForBean(selectedBean.name)
        own == Min(Owners(selectedBean.name))
        commons == Places(getBaseArtifactName(catalog.components[own].artifactId)
                          \o CommonSuffix)
        common == IF commons = {} THEN <<>> ELSE PropsAt(Min(commons))
        named(props) == {i \in DOMAIN props : props[i].name = name}
    IN  IF named(resolved) # {} THEN resolved[Min(named(resolved))].defaultValue
        ELSE IF named(common) # {} THEN common[Min(named(common))].defaultValue
        ELSE JUndefined

\* C3: a dependant bean that depends on property P is inactive whenever the
\* configuration holds false or 'false' for P: the default of P counts only
\* when no value is configured.
C3_ConfiguredFalseDeactivates ==
    hasCatalogInfo =>
        LET data == dependantBeansData
            active == activeDependantBeans
        IN  \A i \in DOMAIN data :
                LET P == data[i].bean.dependsOnProperty
                IN  (P # "" /\ ConfigurationValue(P) \in {JFalse, JStr("false")})
                        => ~Includes(active, data[i])

\* C4: a dependant bean is active if it depends on no property, or the
\* configured value of its property is true or 'true', or is present and
\* none of '', null, false, 'false', or none is configured and the property's
\* default is 'true'; it is inactive when none is configured and the default
\* is not 'true'.
C4_Activation ==
    hasCatalogInfo =>
        LET data == dependantBeansData
            active == activeDependantBeans
        IN  \A i \in DOMAIN data :
                LET P == data[i].bean.dependsOnProperty
                    v == ConfigurationValue(P)
                    kept == Includes(active, data[i])
                IN  /\ P = "" => kept
                    /\ v \in {JTrue, JStr("true")} => kept
                    /\ (v # JUndefined
                        /\ v \notin {JStr(""), JNull, JFalse, JStr("false")}) => kept
                    /\ (P # "" /\ v = JUndefined) =>
                          (kept <=> DefaultOfProperty(P) = JStr("true"))

\* C4 happens: nothing is configured for the property, the owner has
\* properties of its own without it, the "-common" component gives it the
\* default 'true', and the dependant bean is active
C4_Witness ==
    /\ hasCatalogInfo
    /\ isSummaryModalOpen
    /\ ConfigurationValue("ssl.enabled") = JUndefined
    /\ ConfigurationValue("jdbc.url") = JStr("jdbc:postgresql://db")
    /\ getConfigurationPropertiesForBean(selectedBean.name) = <<UrlProperty>>
    /\ DefaultOfProperty("ssl.enabled") = JStr("true")
    /\ Len(dependantBeansData) = 3
    /\ activeDependantBeans = dependantBeansData


---------------------------------------------------------------------------
(* The wizard over catalogs whose factories share a beanType *)

MaxFactories == 3

SqlComponents == <<"camel-sql">>
RuntimeId == <<"forage", Dash, "jdbc", Dash, "quarkus">>

MainBeanFactory(name, beanType, runtimeType) ==
    Factory(name, SqlComponents, beanType, "javax.sql.DataSource", runtimeType, <<>>)

\* a factory whose quarkus runtime declares a factory without components
NestingFactory ==
    Factory("nesting", SqlComponents, "Repository", "javax.sql.DataSource", JNull,
            <<RuntimeComponent(RuntimeId, JStr("quarkus"),
                <<Factory("nested", <<>>, "DataSource", "javax.sql.DataSource",
                          JStr("main"), <<>>)>>,
                <<>>)>>)

\* a factory of another Camel component
KafkaFactory ==
    Factory("kafka", <<"camel-kafka">>, "DataSource", "javax.sql.DataSource",
            JStr("main"), <<>>)

FactoryPool ==
    {MainBeanFactory("main", "DataSource", JStr("main")),
     MainBeanFactory("upper", "DataSource", JStr("MAIN")),
     MainBeanFactory("empty", "DataSource", JStr("")),
     MainBeanFactory("null", "DataSource", JNull),
     MainBeanFactory("spring", "DataSource", JStr("spring-boot")),
     MainBeanFactory("repository", "Repository", JStr("quarkus")),
     NestingFactory, KafkaFactory}

MainBeanCatalogs ==
    {ForageCatalog(<<Component(PostgresqlId, <<UrlProperty>>, <<PostgresqlBean>>,
                               list, <<>>)>>) :
        list \in Arrangements(FactoryPool, MaxFactories)}

MainBeanInit == LoadedInit(MainBeanCatalogs) /\ WizardInit

MainBeanNext ==
    \/ OpenWizard /\ UNCHANGED <<storeVars, queryVars>>
    \/ onClose /\ UNCHANGED <<storeVars, queryVars>>
    \/ \E i \in DOMAIN availableBeans :
          handleSelectBean(availableBeans[i]) /\ UNCHANGED <<storeVars, queryVars>>
    \/ handleBack /\ UNCHANGED <<storeVars, queryVars>>
    \/ \E value \in {JStr(""), JStr("jdbc:postgresql://db")} :
          handlePropertyChange("jdbc.url", value) /\ UNCHANGED <<storeVars, queryVars>>
    \/ \E value \in BeanNameTexts :
          handleCamelBeanNameChange(value) /\ UNCHANGED <<storeVars, queryVars>>
    \/ handleFinish /\ UNCHANGED <<storeVars, queryVars>>
    \/ handleCloseSummaryModal /\ UNCHANGED <<storeVars, queryVars>>

SpecMainBean == MainBeanInit /\ [][MainBeanNext]_vars

IsMainRuntime(factory) == OptLowerCase(factory.runtimeType) = JStr("main")
IsEmptyRuntime(factory) == factory.runtimeType \in {JStr(""), JNull, JUndefined}

\* C5: in the Main Bean list, each beanType of the matched factories keeps
\* exactly one factory: one with runtimeType 'main' (in any case) if the
\* beanType has one, else one with an empty or null runtimeType if it has one,
\* else the first one seen, whatever the order of the matched factories.
C5_MainBeanDeduplication ==
    mainBeanShown =>
        LET matched == factories
            kept == uniqueBeanTypes
        IN  \A T \in {matched[i].beanType : i \in DOMAIN matched} :
                LET of == {i \in DOMAIN matched : matched[i].beanType = T}
                    keptOf == {k \in DOMAIN kept : kept[k].beanType = T}
                IN  /\ Cardinality(keptOf) = 1
                    /\ \A k \in keptOf :
                          /\ \E i \in of : kept[k] = matched[i]
                          /\ IF \E i \in of : IsMainRuntime(matched[i])
                             THEN IsMainRuntime(kept[k])
                             ELSE IF \E i \in of : IsEmptyRuntime(matched[i])
                             THEN IsEmptyRuntime(kept[k])
                             ELSE kept[k] = matched[Min(of)]

---------------------------------------------------------------------------
(* The wizard over catalogs with top-level and nested factories *)

KafkaComponents == <<"camel-kafka">>
StarterId == <<"forage", Dash, "jdbc", Dash, "starter">>

NestedFactory(name, components) ==
    Factory(name, components, "DataSource", "javax.sql.DataSource", JStr("main"), <<>>)

\* a factory of the bean's Camel component, without runtimes
DataSourceFactory ==
    Factory("dataSource", SqlComponents, "DataSource", "javax.sql.DataSource",
            JStr("main"), <<>>)

\* a factory of the bean's Camel component whose spring-boot runtime declares
\* a factory without components
JdbcFactory ==
    Factory("jdbc", <<"camel-jdbc">>, "Repository", "javax.sql.DataSource", JNull,
            <<RuntimeComponent(StarterId, JStr("spring-boot"),
                               <<NestedFactory("jdbc", <<>>)>>, <<>>)>>)

\* the same nested factory under the quarkus runtime of another factory
JdbcQuarkusFactory ==
    Factory("jdbcQuarkus", SqlComponents, "Repository", "javax.sql.DataSource",
            JStr(""),
            <<RuntimeComponent(RuntimeId, JStr("QUARKUS"),
                               <<NestedFactory("jdbc", <<>>)>>, <<>>)>>)

\* a factory of another Camel component whose quarkus runtime declares a
\* factory of the bean's component, one without components and one of the
\* other component
KafkaParentFactory ==
    Factory("kafkaParent", KafkaComponents, "Repository", "javax.sql.DataSource",
            JStr("spring-boot"),
            <<RuntimeComponent(RuntimeId, JStr("quarkus"),
                               <<NestedFactory("dataSource", SqlComponents),
                                 NestedFactory("orphan", <<>>),
                                 NestedFactory("kafkaNested", KafkaComponents)>>,
                               <<>>)>>)

NestPool ==
    {DataSourceFactory, JdbcFactory, JdbcQuarkusFactory, KafkaParentFactory}

FactoryOwner(list) ==
    Component(PostgresqlId, <<UrlProperty>>, <<PostgresqlBean>>, list, <<>>)

FactoryCommon(list) ==
    Component(CommonId, <<UrlProperty>>, <<>>, list, <<>>)

\* up to MaxFactories factories, declared by the bean's owner alone or shared
\* out between the owner and the "-common" component, in either order
FactoryCatalogs ==
    LET lists == Arrangements(NestPool, MaxFactories)
        first(list, k) == SubSeq(list, 1, k)
        second(list, k) == SubSeq(list, k + 1, Len(list))
    IN  {ForageCatalog(<<FactoryOwner(list)>>) : list \in lists}
        \cup UNION {{ForageCatalog(<<FactoryOwner(first(split[1], split[2])),
                                    FactoryCommon(second(split[1], split[2]))>>),
                     ForageCatalog(<<FactoryCommon(first(split[1], split[2])),
                                    FactoryOwner(second(split[1], split[2]))>>)} :
                        split \in {x \in lists \X (0..MaxFactories) :
                                      x[2] <= Len(x[1])}}

FactoriesInit == LoadedInit(FactoryCatalogs) /\ WizardInit

FactoriesNext ==
    \/ OpenWizard /\ UNCHANGED <<storeVars, queryVars>>
    \/ onClose /\ UNCHANGED <<storeVars, queryVars>>
    \/ \E i \in DOMAIN availableBeans :
          handleSelectBean(availableBeans[i]) /\ UNCHANGED <<storeVars, queryVars>>
    \/ handleBack /\ UNCHANGED <<storeVars, queryVars>>
    \/ \E value \in {JStr(""), JStr("jdbc:postgresql://db")} :
          handlePropertyChange("jdbc.url", value) /\ UNCHANGED <<storeVars, queryVars>>
    \/ \E value \in BeanNameTexts :
          handleCamelBeanNameChange(value) /\ UNCHANGED <<storeVars, queryVars>>
    \/ handleFinish /\ UNCHANGED <<storeVars, queryVars>>
    \/ handleCloseSummaryModal /\ UNCHANGED <<storeVars, queryVars>>

SpecFactories == FactoriesInit /\ [][FactoriesNext]_vars

\* the two lists share an entry
Shares(a, b) == Range(a) \cap Range(b) # {}

\* the top-level factories of the catalog, as <<component, factory>> places
TopLevelPlaces ==
    {o \in (DOMAIN catalog.components) \X (1..MaxFactories) :
        o[2] \in DOMAIN catalog.components[o[1]].factories}

TopLevelAt(o) == catalog.components[o[1]].factories[o[2]]

\* the nested factories of the catalog, as <<component, factory, runtime,
\* nested factory>> places
NestedPlaces ==
    {o \in (DOMAIN catalog.components) \X (1..MaxFactories) \X (1..1) \X (1..3) :
        /\ o[2] \in DOMAIN catalog.components[o[1]].factories
        /\ o[3] \in DOMAIN catalog.components[o[1]].factories[o[2]].runtimes
        /\ o[4] \in DOMAIN
              catalog.components[o[1]].factories[o[2]].runtimes[o[3]].factories}

RuntimeAt(o) == catalog.components[o[1]].factories[o[2]].runtimes[o[3]]

NestedAt(o) == RuntimeAt(o).factories[o[4]]

ComponentIds == {catalog.components[c].artifactId : c \in DOMAIN catalog.components}

\* C13: each name of a top-level factory that shares a Camel component with
\* the selected bean has exactly one top-level entry in factories, with the
\* coordinates of the first component declaring such a factory of that name;
\* a name whose top-level factories share none has no top-level entry.
C13_TopLevelFactories ==
    hasCatalogInfo =>
        LET entries == factories
        IN  \A o \in TopLevelPlaces :
                LET declaring ==
                        {d \in TopLevelPlaces :
                            /\ TopLevelAt(d).name = TopLevelAt(o).name
                            /\ Shares(TopLevelAt(d).components, selectedBean.components)}
                    topLevel ==
                        {i \in DOMAIN entries :
                            /\ entries[i].name = TopLevelAt(o).name
                            /\ entries[i].artifactId \in ComponentIds}
                IN  IF declaring = {} THEN topLevel = {}
                    ELSE /\ Cardinality(topLevel) = 1
                         /\ \A i \in topLevel :
                               Coordinates(entries[i]) =
                                   Coordinates(catalog.components[
                                       Min({d[1] : d \in declaring})])

\* a nested factory of the catalog matches the selected bean
NestedMatches(o) ==
    \/ Shares(NestedAt(o).components, selectedBean.components)
    \/ Shares(TopLevelAt(<<o[1], o[2]>>).components, selectedBean.components)

\* the entries of that name under the artifactId of a runtime component
NestedEntries(entries, o) ==
    {i \in DOMAIN entries :
        /\ entries[i].name = NestedAt(o).name
        /\ entries[i].artifactId = RuntimeAt(o).artifactId}

\* C14: a nested factory has an entry in factories iff its own components or
\* those of its parent top-level factory share an entry with the selected
\* bean's; without components of its own it has one exactly when its parent
\* matches.
C14_NestedFactories ==
    hasCatalogInfo =>
        LET entries == factories
        IN  \A o \in NestedPlaces :
                /\ NestedMatches(o) => Cardinality(NestedEntries(entries, o)) = 1
                /\ NestedEntries(entries, o) # {} =>
                      \E m \in NestedPlaces :
                          /\ NestedAt(m).name = NestedAt(o).name
                          /\ RuntimeAt(m).artifactId = RuntimeAt(o).artifactId
                          /\ NestedMatches(m)

\* C14 happens: a nested factory without components under a matching parent,
\* and under a parent of another Camel component one of the bean's component
\* and one without components
C14_Witness ==
    /\ hasCatalogInfo
    /\ catalog.components[1].factories = <<JdbcFactory, KafkaParentFactory>>
    /\ factories =
          <<FactoryEntry(JdbcFactory, catalog.components[1], JNull),
            FactoryEntry(NestedFactory("jdbc", <<>>), JdbcFactory.runtimes[1],
                         JStr("spring-boot")),
            FactoryEntry(NestedFactory("dataSource", SqlComponents),
                         KafkaParentFactory.runtimes[1], JStr("quarkus"))>>

\* C15: a nested entry of factories carries the artifactId, groupId, version
\* and runtimeType of the runtime component that declares the factory.
C15_NestedCoordinates ==
    hasCatalogInfo =>
        LET entries == factories
        IN  \A i \in DOMAIN entries :
                entries[i].artifactId \notin ComponentIds =>
                    LET from == {o \in NestedPlaces :
                                    /\ NestedAt(o).name = entries[i].name
                                    /\ RuntimeAt(o).artifactId = entries[i].artifactId
                                    /\ NestedMatches(o)}
                    IN  /\ from # {}
                        /\ \A o \in from :
                              /\ Coordinates(entries[i]) = Coordinates(RuntimeAt(o))
                              /\ entries[i].runtimeType = RuntimeAt(o).runtimeType

\* C15 happens: the nested factory says 'main', its parent nothing, its
\* runtime component 'spring-boot', and the owner has other coordinates
C15_Witness ==
    /\ hasCatalogInfo
    /\ isSummaryModalOpen
    /\ catalog.components[1].factories = <<JdbcFactory>>
    /\ Len(factories) = 2
    /\ factories[2].name = "jdbc"
    /\ factories[2].artifactId = StarterId
    /\ factories[2].groupId = "io.kaoto.forage.runtime"
    /\ factories[2].version = "1.1"
    /\ factories[2].runtimeType = JStr("spring-boot")

---------------------------------------------------------------------------
(* The wizard over catalogs with properties of every input kind *)

NameProperty == ConfigurationProperty("bean.name", "Bean-Name", JNull)
UserProperty == ConfigurationProperty("jdbc.user", "String", JNull)
PasswordProperty == ConfigurationProperty("jdbc.password", "password", JStr(""))
PoolProperty == ConfigurationProperty("pool.size", "integer", JNull)

SummaryLists ==
    {<<NameProperty, UrlProperty, UserProperty>>,
     <<UserProperty, NameProperty, UrlProperty>>,
     <<PasswordProperty, PoolProperty, SslProperty("Boolean", JStr("false"))>>}

\* the properties are the owner's own, or those of its "-common" component
SummaryCatalogs ==
    {ForageCatalog(<<Component(PostgresqlId, list, <<PostgresqlBean>>, <<>>, <<>>)>>) :
        list \in SummaryLists}
    \cup
    {ForageCatalog(<<Component(PostgresqlId, <<>>, <<PostgresqlBean>>, <<>>, <<>>),
                     Component(CommonId, list, <<>>, <<>>, <<>>)>>) :
        list \in SummaryLists}

SummaryNames == {"jdbc.url", "jdbc.user", "jdbc.password", "pool.size", "ssl.enabled"}
SummaryValues ==
    {JTrue, JFalse, JNum("0"), JNum("5"), JStr(""), JStr("false"),
     JStr("jdbc:postgresql://db")}

SummaryInit == LoadedInit(SummaryCatalogs) /\ WizardInit

SummaryNext ==
    \/ OpenWizard /\ UNCHANGED <<storeVars, queryVars>>
    \/ onClose /\ UNCHANGED <<storeVars, queryVars>>
    \/ \E i \in DOMAIN availableBeans :
          handleSelectBean(availableBeans[i]) /\ UNCHANGED <<storeVars, queryVars>>
    \/ handleBack /\ UNCHANGED <<storeVars, queryVars>>
    \/ \E name \in SummaryNames, value \in SummaryValues :
          handlePropertyChange(name, value) /\ UNCHANGED <<storeVars, queryVars>>
    \/ \E value \in BeanNameTexts :
          handleCamelBeanNameChange(value) /\ UNCHANGED <<storeVars, queryVars>>
    \/ handleFinish /\ UNCHANGED <<storeVars, queryVars>>
    \/ handleCloseSummaryModal /\ UNCHANGED <<storeVars, queryVars>>

SpecSummary == SummaryInit /\ [][SummaryNext]_vars

\* C17: a resolved property is active iff its type, lower-cased, is
\* 'bean-name', or a value that is none of undefined, '' and null is
\* configured for its name, or its default is none of undefined, '' and null;
\* the active properties keep the order of the resolved list.
C17_EffectivePropertySet ==
    hasCatalogInfo =>
        LET resolved == getConfigurationPropertiesForBean(selectedBean.name)
            active == nonEmptyProperties
            Present(value) == value \notin {JUndefined, JStr(""), JNull}
            kept == {i \in DOMAIN resolved :
                        \/ ToLowerCase(resolved[i].type) = "bean-name"
                        \/ Present(ConfigurationValue(resolved[i].name))
                        \/ Present(resolved[i].defaultValue)}
        IN  /\ Len(active) = Cardinality(kept)
            /\ \A i \in kept :
                  active[Cardinality({j \in kept : j <= i})] = resolved[i]

\* C17 happens: of a Bean-Name property, one with a default and one without,
\* the last is active once a value is typed and inactive once it is cleared
C17_Witness ==
    /\ hasCatalogInfo
    /\ isSummaryModalOpen
    /\ getConfigurationPropertiesForBean(selectedBean.name)
          = <<UserProperty, NameProperty, UrlProperty>>
    /\ ConfigurationValue("jdbc.user") = JStr("")
    /\ ConfigurationValue("jdbc.url") = JStr("")
    /\ nonEmptyProperties = <<NameProperty, UrlProperty>>

\* C18: an active property shows the selected bean's name if it is a
\* bean-name property, else the configured value if one is present and not
\* empty, else its default, else the empty string.
C18_DisplayValue ==
    (hasCatalogInfo /\ isSummaryModalOpen) =>
        LET active == nonEmptyProperties
        IN  \A i \in DOMAIN active :
                LET configured == ConfigurationValue(active[i].name)
                    default == active[i].defaultValue
                    shown == displayValue(active[i])
                IN  IF ToLowerCase(active[i].type) = "bean-name"
                    THEN shown = selectedBean.name
                    ELSE IF configured \notin {JUndefined, JStr(""), JNull}
                    THEN shown = configured.v
                    ELSE IF default \notin {JUndefined, JStr(""), JNull}
                    THEN shown = default.v
                    ELSE shown = ""

\* C18 happens: the properties come from the "-common" component, nothing
\* was edited, and jdbc.url shows its default
C18_Witness ==
    /\ hasCatalogInfo
    /\ isSummaryModalOpen
    /\ configuration = <<>>
    /\ catalog.components[1].configurationProperties = <<>>
    /\ nonEmptyProperties = <<NameProperty, UrlProperty>>
    /\ displayValue(NameProperty) = "postgresql"
    /\ displayValue(UrlProperty) = "jdbc:postgresql://localhost"

---------------------------------------------------------------------------
(* The resolvers and the aggregator over an empty store and unknown keys *)

UnknownId == <<"forage", Dash, "unknown">>

ArtifactIds == {PostgresqlId, CommonId, UnknownId}
FactoryNames == {"dataSourceFactory", "unknownFactory"}
ComponentNames == {"camel-sql", "camel-unknown"}

LookupCatalogs ==
    {ForageCatalog(<<>>)} \cup {ForageCatalog(<<c>>) : c \in DepPool}

Answer(op, arg, value) ==
    /\ query' = [op |-> op, arg |-> arg, store |-> catalog]
    /\ result' = value
    /\ UNCHANGED <<storeVars, wizardVars>>

CallComponentByArtifactId(artifactId) ==
    Answer("getComponentByArtifactId", artifactId, getComponentByArtifactId(artifactId))

CallAllBeans == Answer("getAllBeans", "", getAllBeans)

CallAllFactories == Answer("getAllFactories", "", getAllFactories)

CallBeanByName(name) == Answer("getBeanByName", name, getBeanByName(name))

CallFactoryByName(name) == Answer("getFactoryByName", name, getFactoryByName(name))

CallBeansByComponent(name) ==
    Answer("getBeansByComponent", name, getBeansByComponent(name))

CallFactoriesByComponent(name) ==
    Answer("getFactoriesByComponent", name, getFactoriesByComponent(name))

LookupInit == LoadedInit(LookupCatalogs) /\ WizardInit

LookupNext ==
    \/ clearCatalog /\ UNCHANGED <<queryVars, wizardVars>>
    \/ \E artifactId \in ArtifactIds : CallComponentByArtifactId(artifactId)
    \/ CallAllBeans
    \/ CallAllFactories
    \/ \E name \in BeanNames : CallBeanByName(name)
    \/ \E name \in FactoryNames : CallFactoryByName(name)
    \/ \E name \in ComponentNames : CallBeansByComponent(name)
    \/ \E name \in ComponentNames : CallFactoriesByComponent(name)
    \/ \E name \in BeanNames : CallConfigurationPropertiesForBean(name)
    \/ \E name \in BeanNames : CallDependantBeansForBean(name)
    \/ OpenWizard /\ UNCHANGED <<storeVars, queryVars>>
    \/ onClose /\ UNCHANGED <<storeVars, queryVars>>
    \/ \E i \in DOMAIN availableBeans :
          handleSelectBean(availableBeans[i]) /\ UNCHANGED <<storeVars, queryVars>>
    \/ handleBack /\ UNCHANGED <<storeVars, queryVars>>
    \/ handleFinish /\ UNCHANGED <<storeVars, queryVars>>
    \/ handleCloseSummaryModal /\ UNCHANGED <<storeVars, queryVars>>

SpecLookup == LookupInit /\ [][LookupNext]_vars

\* what the loaded catalog knows
KnownBeans ==
    UNION {Range(catalog.components[c].beans) : c \in DOMAIN catalog.components}

KnownFactories ==
    UNION {Range(catalog.components[c].factories) : c \in DOMAIN catalog.components}

\* the key asked for is not in the loaded catalog
IsUnknown ==
    \/ /\ query.op = "getComponentByArtifactId"
       /\ query.arg \notin ComponentIds
    \/ /\ query.op \in {"getBeanByName", "getConfigurationPropertiesForBean",
                        "getDependantBeansForBean"}
       /\ query.arg \notin {b.name : b \in KnownBeans}
    \/ /\ query.op = "getFactoryByName"
       /\ query.arg \notin {f.name : f \in KnownFactories}
    \/ /\ query.op = "getBeansByComponent"
       /\ query.arg \notin UNION {Range(b.components) : b \in KnownBeans}
    \/ /\ query.op = "getFactoriesByComponent"
       /\ query.arg \notin UNION {Range(f.components) : f \in KnownFactories}

\* the call made last, on the store as it is, named nothing the store holds
IsMiss ==
    /\ query.op # "none"
    /\ query.store = catalog
    /\ \/ ~IsLoaded
       \/ IsLoaded /\ IsUnknown

---------------------------------------------------------------------------
(* getBaseArtifactName over artifact ids of every shape *)

MaxLexemes == 5

\* the artifact ids of up to MaxLexemes lexemes: words and dashes in any
\* arrangement, so with empty segments and with none
Lexemes == {"forage", "jdbc", Dash}
ArtifactTexts == Arrangements(Lexemes, MaxLexemes)

CallBaseArtifactName(artifactId) ==
    Answer("getBaseArtifactName", artifactId, getBaseArtifactName(artifactId))

BaseNameInit == StoreInit /\ query = NoQuery /\ result = <<>> /\ WizardInit

BaseNameNext == \E artifactId \in ArtifactTexts : CallBaseArtifactName(artifactId)

SpecBaseName == BaseNameInit /\ [][BaseNameNext]_vars

\* C20: the base name of an artifact id with at least two dash-separated
\* segments is its first two segments joined by a dash, that is the id up to
\* its second dash; an id with fewer than two segments is its own base name.
C20_BaseName ==
    query.op = "getBaseArtifactName" =>
        LET id == query.arg
            dashes == {i \in DOMAIN id : id[i] = Dash}
        IN  IF dashes = {} THEN result = id
            ELSE LET later == dashes \ {Min(dashes)}
                     first == SubSeq(id, 1, Min(dashes) - 1)
                     second == SubSeq(id, Min(dashes) + 1,
                                      IF later = {} THEN Len(id) ELSE Min(later) - 1)
                 IN  result = first \o <<Dash>> \o second

\* C20 happens: an id of three segments
C20_Witness ==
    /\ query.op = "getBaseArtifactName"
    /\ query.arg = BaseId \o <<Dash, "forage">>
    /\ result = BaseId

---------------------------------------------------------------------------
(* The wizard over catalogs whose factories name every kind of runtime *)

BucketPool ==
    {MainBeanFactory("main", "DataSource", JStr("main")),
     MainBeanFactory("upper", "DataSource", JStr("MAIN")),
     MainBeanFactory("empty", "DataSource", JStr("")),
     MainBeanFactory("null", "DataSource", JNull),
     MainBeanFactory("spring", "DataSource", JStr("Spring-Boot")),
     MainBeanFactory("quarkus", "Repository", JStr("quarkus")),
     MainBeanFactory("native", "DataSource", JStr("native"))}

BucketCatalogs ==
    {ForageCatalog(<<FactoryOwner(list)>>) :
        list \in Arrangements(BucketPool, MaxFactories)}

BucketsInit == LoadedInit(BucketCatalogs) /\ WizardInit

BucketsNext ==
    \/ OpenWizard /\ UNCHANGED <<storeVars, queryVars>>
    \/ onClose /\ UNCHANGED <<storeVars, queryVars>>
    \/ \E i \in DOMAIN availableBeans :
          handleSelectBean(availableBeans[i]) /\ UNCHANGED <<storeVars, queryVars>>
    \/ handleBack /\ UNCHANGED <<storeVars, queryVars>>
    \/ \E value \in {JStr(""), JStr("jdbc:postgresql://db")} :
          handlePropertyChange("jdbc.url", value) /\ UNCHANGED <<storeVars, queryVars>>
    \/ \E value \in BeanNameTexts :
          handleCamelBeanNameChange(value) /\ UNCHANGED <<storeVars, queryVars>>
    \/ handleFinish /\ UNCHANGED <<storeVars, queryVars>>
    \/ handleCloseSummaryModal /\ UNCHANGED <<storeVars, queryVars>>

SpecBuckets == BucketsInit /\ [][BucketsNext]_vars

\* the text of a runtimeType with its capitals folded, "" for none
FoldedRuntime(factory) ==
    IF factory.runtimeType \in {JNull, JUndefined} THEN ""
    ELSE ToLowerCase(factory.runtimeType.v)

\* C16: a matched factory is in the main, spring-boot or quarkus bucket iff
\* its runtimeType, lower-cased, is 'main', 'spring-boot' or 'quarkus', and in
\* none for any other value, empty and null included; the generic bucket is
\* the one coordinate groupId:artifactId:version of the owning component.
C16_DependencyBuckets ==
    hasCatalogInfo =>
        LET matched == factories
            owner == catalog.components[Min(Owners(selectedBean.name))]
            main == Range(mainDeps)
            springBoot == Range(springBootDeps)
            quarkus == Range(quarkusDeps)
        IN  /\ \A i \in DOMAIN matched :
                  /\ matched[i] \in main <=> FoldedRuntime(matched[i]) = "main"
                  /\ matched[i] \in springBoot
                        <=> FoldedRuntime(matched[i]) = "spring-boot"
                  /\ matched[i] \in quarkus <=> FoldedRuntime(matched[i]) = "quarkus"
            /\ main \cup springBoot \cup quarkus \subseteq Range(matched)
            /\ genericDeps =
                  <<<<owner.groupId, ":">> \o owner.artifactId \o <<":", owner.version>>>>

\* C16 happens: the summary of a bean whose factories say 'MAIN', nothing and
\* 'native'
C16_Witness ==
    /\ hasCatalogInfo
    /\ isSummaryModalOpen
    /\ Len(factories) = 3
    /\ {factories[i].runtimeType : i \in DOMAIN factories}
          = {JStr("MAIN"), JNull, JStr("native")}
    /\ Len(mainDeps) = 1
    /\ springBootDeps = <<>>
    /\ genericDeps = <<<<"io.kaoto.forage", ":", "forage", Dash, "jdbc", Dash,
                         "postgresql", ":", "1.0">>>>

---------------------------------------------------------------------------
(* The wizard over catalogs with two beans for the component *)

MysqlId == <<"forage", Dash, "jdbc", Dash, "mysql">>
MysqlBean == Bean("mysql", <<"camel-sql">>)

\* the second bean has no property, one the first has too, or one of its own
WizardLists == {<<>>, <<UrlProperty>>, <<UserProperty>>}

WizardCatalogs ==
    {ForageCatalog(
        <<Component(PostgresqlId, <<UrlProperty, SslProperty("Boolean", JStr("false"))>>,
                    <<PostgresqlBean>>, <<>>, <<>>),
          Component(MysqlId, list, <<MysqlBean>>, <<>>, <<>>)>>) :
        list \in WizardLists}

WizardNames == {"jdbc.url", "jdbc.user", "ssl.enabled"}
WizardValues == {JTrue, JFalse, JStr(""), JStr("jdbc:postgresql://db")}

WizardFlowInit == LoadedInit(WizardCatalogs) /\ WizardInit

WizardFlowNext ==
    \/ OpenWizard /\ UNCHANGED <<storeVars, queryVars>>
    \/ onClose /\ UNCHANGED <<storeVars, queryVars>>
    \/ \E i \in DOMAIN availableBeans :
          handleSelectBean(availableBeans[i]) /\ UNCHANGED <<storeVars, queryVars>>
    \/ handleBack /\ UNCHANGED <<storeVars, queryVars>>
    \/ \E name \in WizardNames, value \in WizardValues :
          handlePropertyChange(name, value) /\ UNCHANGED <<storeVars, queryVars>>
    \/ \E value \in BeanNameTexts :
          handleCamelBeanNameChange(value) /\ UNCHANGED <<storeVars, queryVars>>
    \/ handleFinish /\ UNCHANGED <<storeVars, queryVars>>
    \/ handleCloseSummaryModal /\ UNCHANGED <<storeVars, queryVars>>

SpecWizard == WizardFlowInit /\ [][WizardFlowNext]_vars

\* C21: a step that takes isOpen from false to true, whatever the wizard
\* held before, ends in step SelectBean with no selected bean, an empty
\* configuration, an empty bean-name text and no validation message.
C21_OpenResets ==
    [][(~isOpen /\ isOpen') =>
          /\ currentStep' = SelectBean
          /\ selectedBean' = JNull
          /\ configuration' = <<>>
          /\ camelBeanName' = <<>>
          /\ camelBeanNameError' = ""]_vars

\* C21 happens: the wizard was opened again after a Finish, while the summary
\* of the earlier selection is still shown
C21_Witness ==
    /\ isOpen
    /\ isSummaryModalOpen
    /\ currentStep = SelectBean
    /\ selectedBean = JNull
    /\ configuration = <<>>
    /\ camelBeanName = <<>>
    /\ camelBeanNameError = ""

\* C22: a step from ConfigureProperties to SelectBean in the open wizard
\* (Back) clears the selected bean and empties the configuration; a step that
\* selects a bean starts from an empty configuration; and onSelectBean is
\* handed the selected bean with the current configuration. Every value handed
\* to onSelectBean was therefore entered while the handed bean was selected.
C22_BackDiscards ==
    [][/\ (isOpen /\ isOpen' /\ currentStep = ConfigureProperties
              /\ currentStep' = SelectBean)
          => (selectedBean' = JNull /\ configuration' = <<>>)
       /\ (selectedBean' # JNull /\ selectedBean' # selectedBean)
          => (configuration = <<>> /\ configuration' = <<>>)
       /\ onSelectBeanCall'.called
          => /\ onSelectBeanCall'.bean = selectedBean
             /\ onSelectBeanCall'.configuration = configuration
             /\ selectedBean' = selectedBean]_vars

\* C22 happens: Finish for the bean without properties, selected after Back
\* from a bean for which a bean name had been typed; nothing is handed over
C22_Witness ==
    /\ catalog.components[2].configurationProperties = <<>>
    /\ camelBeanName = <<"myBean">>
    /\ onSelectBeanCall.called
    /\ onSelectBeanCall.bean = MysqlBean
    /\ onSelectBeanCall.configuration = <<>>

\* C23: a bean-name text with a space carries the validation message, and
\* the message blocks nothing: in every open ConfigureProperties state Finish
\* can be taken, and the state it leaves has onSelectBean called with the
\* selected bean and the configuration, the wizard closed and the summary open.
C23_ValidationIsAdvisory ==
    /\ Includes(camelBeanName, " ")
          <=> camelBeanNameError = "Camel Bean Name cannot contain spaces"
    /\ camelBeanNameError \in {"", "Camel Bean Name cannot contain spaces"}
    /\ (isOpen /\ currentStep = ConfigureProperties)
          => ENABLED (handleFinish /\ UNCHANGED <<storeVars, queryVars>>)
    /\ onSelectBeanCall.called
          => /\ ~isOpen
             /\ isSummaryModalOpen
             /\ onSelectBeanCall.bean = selectedBean
             /\ onSelectBeanCall.configuration = configuration

\* C23 happens: Finish was taken while the message was shown
C23_Witness ==
    /\ camelBeanName = <<"my", " ", "bean">>
    /\ camelBeanNameError = "Camel Bean Name cannot contain spaces"
    /\ onSelectBeanCall.called
    /\ onSelectBeanCall.bean = PostgresqlBean
    /\ onSelectBeanCall.configuration # <<>>
    /\ ~isOpen
    /\ isSummaryModalOpen

---------------------------------------------------------------------------
(* The wizard over catalogs with Spring Boot and Quarkus variants *)

QuarkusStarterId == RuntimeId \o <<Dash, "starter">>
QuarkusWordId == <<"forage", Dash, "quarkusjdbc">>

\* the owner of the bean, under each shape of artifactId
VariantOwners ==
    {Component(id, <<>>, <<PostgresqlBean>>, <<>>, <<>>) :
        id \in {BaseId, StarterId, RuntimeId, QuarkusStarterId, QuarkusWordId}}

\* components without beans that may be the variants
VariantOthers ==
    {Component(id, <<>>, <<>>, <<>>, <<>>) :
        id \in {BaseId, StarterId, RuntimeId, QuarkusWordId \o <<Dash, "quarkus">>}}

VariantCatalogs ==
    {ForageCatalog(cs) :
        cs \in {a \in Arrangements(VariantOwners \cup VariantOthers, MaxComponents) :
                  /\ Cardinality({i \in DOMAIN a : a[i] \in VariantOwners}) = 1
                  /\ Distinct(a)}}

VariantsInit == LoadedInit(VariantCatalogs) /\ WizardInit

VariantsNext ==
    \/ OpenWizard /\ UNCHANGED <<storeVars, queryVars>>
    \/ onClose /\ UNCHANGED <<storeVars, queryVars>>
    \/ \E i \in DOMAIN availableBeans :
          handleSelectBean(availableBeans[i]) /\ UNCHANGED <<storeVars, queryVars>>
    \/ handleBack /\ UNCHANGED <<storeVars, queryVars>>
    \/ handleFinish /\ UNCHANGED <<storeVars, queryVars>>
    \/ handleCloseSummaryModal /\ UNCHANGED <<storeVars, queryVars>>

SpecVariants == VariantsInit /\ [][VariantsNext]_vars

\* s ends with '-' followed by the word
EndsWith(s, word) == Len(s) >= 2 /\ s[Len(s) - 1] = Dash /\ s[Len(s)] = word

---------------------------------------------------------------------------
(* The arrays the resolvers hand out, and the writes of getCatalogInfo *)

\* An array is named by the component whose configurationProperties it is, or
\* is one the call itself created.
FreshArray == [place |-> 0]
ArrayOf(i) == [place |-> i]

\* the array getConfigurationPropertiesForBean returns: it returns the
\* component's own array object, and a new [] when it finds nothing
configurationPropertiesArray(beanName) ==
    IF ~IsLoaded \/ Owners(beanName) = {} THEN FreshArray
    ELSE LET own == Min(Owners(beanName))
             baseArtifactName == getBaseArtifactName(catalog.components[own].artifactId)
             commons == Places(baseArtifactName \o CommonSuffix)
             bases == Places(baseArtifactName)
         IN  IF Len(PropsAt(own)) > 0 THEN ArrayOf(own)
             ELSE IF commons # {} /\ Len(PropsAt(Min(commons))) > 0
             THEN ArrayOf(Min(commons))
             ELSE IF bases # {} /\ Len(PropsAt(Min(bases))) > 0
             THEN ArrayOf(Min(bases))
             ELSE FreshArray

\* allRelatedProperties = configurationProperties, without the spread
allRelatedPropertiesArray_noCopy == configurationPropertiesArray(selectedBean.name)

\* allRelatedProperties = [...configurationProperties] is a new array
allRelatedPropertiesArray == FreshArray

\* the catalog after array.push(...items)
PushInto(cat, array, items) ==
    IF array = FreshArray THEN cat
    ELSE [cat EXCEPT !.components[array.place].configurationProperties = @ \o items]

\* the catalog after getCatalogInfo ran: its only push into an array it did
\* not create by a literal is the one into allRelatedProperties
catalogAfterCatalogInfo ==
    IF ~hasCatalogInfo THEN catalog
    ELSE LET commonArtifactId ==
                 JoinDash(FirstTwo(SplitDash(baseArtifactId))) \o CommonSuffix
             commonComponent == ComponentWithArtifactId(catalog, commonArtifactId)
         IN  IF commonComponent # JUndefined
             THEN PushInto(catalog, allRelatedPropertiesArray,
                           commonComponent.configurationProperties)
             ELSE catalog

\* what getCatalogInfo returns
catalogInfo ==
    IF ~hasCatalogInfo THEN JNull
    ELSE [component |-> catalogInfoComponent,
          springBootComponent |-> springBootComponent,
          quarkusComponent |-> quarkusComponent,
          nonEmptyProperties |-> nonEmptyProperties,
          factories |-> factories,
          activeDependantBeans |-> activeDependantBeans]

\* getCatalogInfo(), called by every render of the wizard
getCatalogInfo ==
    /\ query' = [op |-> "getCatalogInfo",
                 arg |-> [bean |-> selectedBean, configuration |-> configuration],
                 store |-> catalog]
    /\ result' = catalogInfo
    /\ catalog' = catalogAfterCatalogInfo
    /\ UNCHANGED <<catalogPath, calls, lastOp, wizardVars>>

IdempotenceCatalogs ==
    {ForageCatalog(<<AggOwner(<<UrlProperty>>),
                     AggCommon(<<SslProperty("Boolean", JStr("true"))>>)>>),
     ForageCatalog(<<AggOwner(<<>>),
                     AggCommon(<<UrlProperty, SslProperty("String", JNull)>>)>>),
     ForageCatalog(<<Component(PostgresqlId, <<UrlProperty>>, <<PostgresqlBean>>,
                               <<DataSourceFactory>>, <<DepAlways>>)>>)}

IdempotenceInit == LoadedInit(IdempotenceCatalogs) /\ WizardInit

IdempotenceNext ==
    \/ \E artifactId \in ArtifactIds : CallComponentByArtifactId(artifactId)
    \/ CallAllBeans
    \/ CallAllFactories
    \/ \E name \in BeanNames : CallBeanByName(name)
    \/ \E name \in FactoryNames : CallFactoryByName(name)
    \/ \E name \in ComponentNames : CallBeansByComponent(name)
    \/ \E name \in ComponentNames : CallFactoriesByComponent(name)
    \/ \E name \in BeanNames : CallConfigurationPropertiesForBean(name)
    \/ \E name \in BeanNames : CallDependantBeansForBean(name)
    \/ getCatalogInfo
    \/ OpenWizard /\ UNCHANGED <<storeVars, queryVars>>
    \/ onClose /\ UNCHANGED <<storeVars, queryVars>>
    \/ \E i \in DOMAIN availableBeans :
          handleSelectBean(availableBeans[i]) /\ UNCHANGED <<storeVars, queryVars>>
    \/ handleBack /\ UNCHANGED <<storeVars, queryVars>>
    \/ \E name \in PropertyNames, value \in {JTrue, JFalse, JStr("jdbc:postgresql://db")} :
          handlePropertyChange(name, value) /\ UNCHANGED <<storeVars, queryVars>>
    \/ handleFinish /\ UNCHANGED <<storeVars, queryVars>>
    \/ handleCloseSummaryModal /\ UNCHANGED <<storeVars, queryVars>>

SpecIdempotence == IdempotenceInit /\ [][IdempotenceNext]_vars

\* the call of query, made again now
SecondCall ==
    CASE query.op = "getComponentByArtifactId" -> getComponentByArtifactId(query.arg)
      [] query.op = "getAllBeans" -> getAllBeans
      [] query.op = "getAllFactories" -> getAllFactories
      [] query.op = "getBeanByName" -> getBeanByName(query.arg)
      [] query.op = "getFactoryByName" -> getFactoryByName(query.arg)
      [] query.op = "getBeansByComponent" -> getBeansByComponent(query.arg)
      [] query.op = "getFactoriesByComponent" -> getFactoriesByComponent(query.arg)
      [] query.op = "getConfigurationPropertiesForBean"
            -> getConfigurationPropertiesForBean(query.arg)
      [] query.op = "getDependantBeansForBean" -> getDependantBeansForBean(query.arg)
      [] query.op = "getCatalogInfo" -> catalogInfo

\* the store and the inputs are those of the call of query
SameCallAgain ==
    /\ query.op # "none"
    /\ query.store = catalog
    /\ query.op = "getCatalogInfo"
          => query.arg = [bean |-> selectedBean, configuration |-> configuration]

\* C24: a resolver or aggregator call made again with the catalog and the
\* inputs of the first call returns what the first call returned, and no step
\* of a resolver or of the aggregator changes the catalog or its path.
C24_Idempotence ==
    /\ [](SameCallAgain => result = SecondCall)
    /\ [][catalog' = catalog /\ catalogPath' = catalogPath]_vars

\* C24 happens: getCatalogInfo ran for a bean whose '-common' component has
\* properties to append, and the catalog is the one it started from
C24_Witness ==
    /\ query.op = "getCatalogInfo"
    /\ SameCallAgain
    /\ hasCatalogInfo
    /\ Len(catalog.components) = 2
    /\ Len(configurationProperties) = 1
    /\ Len(allRelatedProperties) = 2
    /\ Len(catalog.components[1].configurationProperties) = 1
    /\ result.activeDependantBeans # <<>>

---------------------------------------------------------------------------
(* The store when the server may also answer the JSON document null *)

\* response.json() of the body 'null' resolves to null
DocNull == NullCatalog

NullableResponses == Responses \cup {[ok |-> TRUE, body |-> DocNull]}

NullableNext ==
    \/ \E p \in Calls, path \in Paths :
          StartLoad(p, path) /\ UNCHANGED <<queryVars, wizardVars>>
    \/ \E p \in Calls : FetchFail(p) /\ UNCHANGED <<queryVars, wizardVars>>
    \/ \E p \in Calls, response \in NullableResponses :
          FetchRespond(p, response) /\ UNCHANGED <<queryVars, wizardVars>>
    \/ \E p \in Calls : JsonSettle(p) /\ UNCHANGED <<queryVars, wizardVars>>
    \/ clearCatalog /\ UNCHANGED <<queryVars, wizardVars>>

SpecNullable == Init /\ [][NullableNext]_vars

\* C26: the store holds null with the path '', or a document with the path
\* of a settled load whose response was that document: catalog and
\* catalogPath are always the pair one load assigned, or the pair of
\* clearCatalog.
C26_PathBelongsToCatalog ==
    IF catalog = NullCatalog
    THEN catalogPath = ""
    ELSE \E p \in Calls :
            /\ Settled(p)
            /\ calls[p].response # NoResponse
            /\ calls[p].response.body = catalog
            /\ calls[p].path = catalogPath

\* C27: in every wizard state the step is ConfigureProperties exactly when a
\* bean is selected, and in step SelectBean the configuration is empty.
C27_StepMatchesSelection ==
    /\ currentStep \in {SelectBean, ConfigureProperties}
    /\ currentStep = ConfigureProperties <=> selectedBean # JNull
    /\ currentStep = SelectBean => configuration = <<>>

\* C27 happens: back in SelectBean, after a bean name was typed in
\* ConfigureProperties
C27_Witness ==
    /\ isOpen
    /\ currentStep = SelectBean
    /\ selectedBean = JNull
    /\ configuration = <<>>
    /\ camelBeanName # <<>>

\* C28: a Back step leaves the bean-name text and its message as they were,
\* and the only step that changes the text without typing is the one that
\* opens the wizard.
C28_BackKeepsBeanName ==
    [][/\ (isOpen /\ isOpen' /\ currentStep = ConfigureProperties
              /\ currentStep' = SelectBean)
          => (camelBeanName' = camelBeanName
              /\ camelBeanNameError' = camelBeanNameError)
       /\ (camelBeanName # <<>> /\ camelBeanName' = <<>>
              /\ ~(isOpen /\ isOpen' /\ currentStep' = ConfigureProperties))
          => (~isOpen /\ isOpen')]_vars

\* C28 happens: the other bean is selected after Back, and the name typed for
\* the first bean is still there with its message
C28_Witness ==
    /\ isOpen
    /\ currentStep = ConfigureProperties
    /\ selectedBean = MysqlBean
    /\ catalog.components[2].configurationProperties = <<>>
    /\ camelBeanName = <<"my", " ", "bean">>
    /\ camelBeanNameError = "Camel Bean Name cannot contain spaces"

---------------------------------------------------------------------------
(* The wizard over catalogs whose runtimes repeat names and artifactIds *)

\* a factory whose runtime has the artifactId of the bean's owner and
\* declares factories named like top-level ones
OwnRuntimeFactory ==
    Factory("ownRuntime", SqlComponents, "Repository", "javax.sql.DataSource",
            JStr("main"),
            <<RuntimeComponent(PostgresqlId, JStr("main"),
                               <<NestedFactory("dataSource", <<>>),
                                 NestedFactory("ownRuntime", <<>>)>>, <<>>)>>)

PairPool == {DataSourceFactory, JdbcFactory, OwnRuntimeFactory}

\* up to MaxFactories factories, any of them more than once, declared by the
\* bean's owner alone or shared out between it and the "-common" component
PairCatalogs ==
    LET lists == Arrangements(PairPool, MaxFactories)
        first(list, k) == SubSeq(list, 1, k)
        second(list, k) == SubSeq(list, k + 1, Len(list))
    IN  {ForageCatalog(<<FactoryOwner(list)>>) : list \in lists}
        \cup UNION {{ForageCatalog(<<FactoryOwner(first(split[1], split[2])),
                                    FactoryCommon(second(split[1], split[2]))>>),
                     ForageCatalog(<<FactoryCommon(first(split[1], split[2])),
                                    FactoryOwner(second(split[1], split[2]))>>)} :
                        split \in {x \in lists \X (0..MaxFactories) :
                                      x[2] <= Len(x[1])}}

PairsInit == LoadedInit(PairCatalogs) /\ WizardInit

PairsNext ==
    \/ OpenWizard /\ UNCHANGED <<storeVars, queryVars>>
    \/ onClose /\ UNCHANGED <<storeVars, queryVars>>
    \/ \E i \in DOMAIN availableBeans :
          handleSelectBean(availableBeans[i]) /\ UNCHANGED <<storeVars, queryVars>>
    \/ handleBack /\ UNCHANGED <<storeVars, queryVars>>
    \/ handleFinish /\ UNCHANGED <<storeVars, queryVars>>
    \/ handleCloseSummaryModal /\ UNCHANGED <<storeVars, queryVars>>

SpecPairs == PairsInit /\ [][PairsNext]_vars

\* C29: no two entries of the aggregator's factories, top-level or nested,
\* have the same name and the same artifactId.
C29_UniqueNameAndArtifact ==
    hasCatalogInfo =>
        LET matched == factories
        IN  \A i, j \in DOMAIN matched :
                (/\ matched[i].name = matched[j].name
                 /\ matched[i].artifactId = matched[j].artifactId) => i = j

\* C29 happens: the owner declares the factory 'dataSource' and, twice, a
\* factory whose runtime has the owner's artifactId and declares 'dataSource'
\* and 'ownRuntime' again; each pair is listed once
C29_Witness ==
    /\ hasCatalogInfo
    /\ isSummaryModalOpen
    /\ Len(catalog.components) = 1
    /\ catalog.components[1].factories
          = <<DataSourceFactory, OwnRuntimeFactory, OwnRuntimeFactory>>
    /\ Len(factories) = 2
    /\ factories[1].name = "dataSource"
    /\ factories[2].name = "ownRuntime"
    /\ factories[1].artifactId = PostgresqlId
    /\ factories[2].artifactId = PostgresqlId

============================================================================
